---- MODULE Spec2Model ----
(***************************************************************************)
(* The tool-use execution loop of the multi-agent assistant                *)
(* (BaseAgent.execute in agents/base/agent.py) with its role definitions   *)
(* (OrchestratorAgent, PythonAgent, ResearcherAgent), the language-model   *)
(* gateway, the context retriever and the agent registry as collaborators. *)
(*                                                                         *)
(* One invocation of execute is a frame; a session is the stack of frames  *)
(* that one caller's execute has opened through route_to_agent.  Actions   *)
(* are the blocks of code between two suspension points (await).           *)
(*                                                                         *)
(* Text is a sequence of tokens; "lit in text" of the code is Contains.    *)
(* None is the empty sequence, and so is the empty string where the code   *)
(* only tests for truthiness; the content of a gateway message keeps the   *)
(* two apart (EmptyString).                                                *)
(***************************************************************************)
EXTENDS Integers, Sequences, FiniteSets, TLC

(***************************************************************************)
(* Program constants                                                       *)
(***************************************************************************)
max_steps == 10
max_retries == 3

(***************************************************************************)
(* Bounds of the model                                                     *)
(***************************************************************************)
\* nested execute invocations the interpreter's stack admits before a
\* further call raises RecursionError (an Exception, caught like any other)
MaxDepth == 3
\* length of the script the gateway stub plays round-robin, one response a call
MaxScript == 2
\* documents one search returns
MaxDocs == 2
\* graph entities one retrieval returns, in the lists drawn exhaustively
MaxEnts == 3
\* tokens of a query given to the tool-choice classification
MaxQuery == 3

NoneText == <<>>

\* the empty string "" as the content of a message
EmptyString == <<"">>

\* bool(text)
Truthy(text) == text # NoneText /\ text # EmptyString

Contains(text, lit) == \E i \in 1..Len(text) : text[i] = lit

Last(seq) == seq[Len(seq)]

\* the position in the transcript of the last assistant message
LastAssistant(messages) ==
    CHOOSE i \in 1..Len(messages) :
        /\ messages[i].role = "assistant"
        /\ \A j \in (i + 1)..Len(messages) : messages[j].role # "assistant"

(***************************************************************************)
(* Agent registry and role definitions                                     *)
(***************************************************************************)
Agents == {"orchestrator", "python", "researcher"}

\* AgentRegistry.get_agent(name): the agent instance or absent
RegistryGetAgent(target) == IF target \in Agents THEN target ELSE "absent"

AgentName(a) ==
    CASE a = "orchestrator" -> "Orchestrator"
      [] a = "python" -> "Python Agent"
      [] a = "researcher" -> "Market Researcher"

\* _get_tools: the names of the exposed tool catalog
GetTools(a) ==
    CASE a = "orchestrator" -> {"route_to_agent"}
      [] a = "python" -> {"execute_databricks_code"}
      [] a = "researcher" -> {"search_documents", "analyze_trends"}

\* attributes an agent object has (hasattr) and the callable ones among them
CallableAttrs(a) ==
    {"execute", "retrieve_context", "_get_tools", "_get_tool_choice",
     "_get_system_prompt", "__reduce__"}
    \cup (IF a = "researcher" THEN {"search_documents", "analyze_trends"} ELSE {})

DataAttrs(a) ==
    {"name", "description"}
    \cup (IF a = "python" THEN {"_current_query"} ELSE {})
    \cup (IF a = "orchestrator" THEN {"agent_routing"} ELSE {})

HasAttr(a, fname) == fname \in CallableAttrs(a) \cup DataAttrs(a)

\* json.dumps accepts what the callable attribute fname returns;
\* object.__reduce__() returns a tuple that holds a function and a class
JsonSerializable(fname) == fname # "__reduce__"

(***************************************************************************)
(* PythonAgent._get_tool_choice: classification of the tracked query       *)
(***************************************************************************)
\* str.upper() and str.lower() on the tokens of the queries
UpperTok(t) ==
    CASE t \in {"text only:", "Text Only:"} -> "TEXT ONLY:"
      [] t \in {"execute:", "Execute:"} -> "EXECUTE:"
      [] t \in {"write", "Write"} -> "WRITE"
      [] OTHER -> t

LowerTok(t) ==
    CASE t = "TEXT ONLY:" -> "text only:"
      [] t = "EXECUTE:" -> "execute:"
      [] t = "WRITE" -> "write"
      [] OTHER -> t

Upper(q) == [i \in 1..Len(q) |-> UpperTok(q[i])]
Lower(q) == [i \in 1..Len(q) |-> LowerTok(q[i])]

\* substring test of a keyword against one token
Occurs(k, tok) ==
    \/ k = tok
    \/ k = "execute" /\ tok = "execute:"
    \/ k = "run" /\ tok = "prune"

KeywordIn(k, q) == \E i \in 1..Len(q) : Occurs(k, q[i])

write_keywords == {"write", "show", "provide", "example", "how to",
                   "just the code", "code for", "script for"}
run_keywords == {"run", "calculate", "analyze", "execute", "plot",
                 "visualize", "determine", "process"}

\* variant: the EXECUTE: prefix is looked for first
PythonGetToolChoiceExecuteFirst(current_query) ==
    LET q == Upper(current_query)
        q_lower == Lower(q)
    IN  IF Contains(q, "EXECUTE:") THEN "auto"
        ELSE IF Contains(q, "TEXT ONLY:") THEN "none"
        ELSE IF (\E k \in write_keywords : KeywordIn(k, q_lower))
                /\ ~(\E k \in run_keywords : KeywordIn(k, q_lower))
             THEN "none"
        ELSE "auto"

\* PythonAgent._get_tool_choice (python_agent/agent.py 108-129)
PythonGetToolChoice(current_query) ==
    LET q == Upper(current_query)
        q_lower == Lower(q)
    IN  IF Contains(q, "TEXT ONLY:") THEN "none"
        ELSE IF Contains(q, "EXECUTE:") THEN "auto"
        ELSE IF (\E k \in write_keywords : KeywordIn(k, q_lower))
                /\ ~(\E k \in run_keywords : KeywordIn(k, q_lower))
             THEN "none"
        ELSE "auto"

\* variant: the Python agent keeps the default of the base class
GetToolChoiceDefault(a, current_query) == "auto"

\* self._get_tool_choice(): BaseAgent's default, PythonAgent's override
GetToolChoice(a, current_query) ==
    IF a = "python" THEN PythonGetToolChoice(current_query) ELSE "auto"

(***************************************************************************)
(* Planning call: tool choice and tool catalog (agent.py 246-263)          *)
(***************************************************************************)
\* tool_choice_value; "null" is None (an agent without tools)
ToolChoiceValue(a, has_executed_tool, current_query) ==
    IF has_executed_tool THEN "none"
    ELSE IF GetTools(a) # {} THEN GetToolChoice(a, current_query) ELSE "null"

\* tools_to_pass; the empty set is None
ToolsToPass(a, tool_choice_value) ==
    IF tool_choice_value = "none" THEN {} ELSE GetTools(a)

\* one chat_completion call as the gateway sees it: the catalog and the tool
\* choice it is given (agent.py 259-263)
GatewayCall(a, has_executed_tool, current_query) ==
    LET tool_choice_value == ToolChoiceValue(a, has_executed_tool, current_query)
        tools_to_pass == ToolsToPass(a, tool_choice_value)
    IN  [tools |-> tools_to_pass,
         tool_choice |-> IF tools_to_pass # {} THEN tool_choice_value ELSE "null"]

\* variant: one more turn than the budget
WithinBudgetInclusive(step_count) == step_count <= max_steps

\* the loop condition (agent.py 241)
WithinBudget(step_count) == step_count < max_steps

\* variant: one more attempt than the ceiling
RetriesExhaustedLate(retry_count) == retry_count > max_retries

\* the retry ceiling (agent.py 413)
RetriesExhausted(retry_count) == retry_count >= max_retries

(***************************************************************************)
(* Context retriever (agent.py 107-191)                                    *)
(***************************************************************************)
\* a document of the index: its body text and its metadata, a dict
IndexDoc(page_content, metadata) ==
    [page_content |-> page_content, metadata |-> metadata]

\* d.get(k, default)
Get(d, k, default) == IF k \in DOMAIN d THEN d[k] ELSE default

\* x or y on strings
Or(x, y) == IF x # "" THEN x ELSE y

\* variant: the metadata is merged over the result
RagResultMerged(doc) ==
    doc.metadata @@ [content |-> "[METADATA ONLY]", title |-> "", source |-> "",
                     chunk_id |-> "", file_id |-> ""]

\* one result of RAGRetriever.retrieve (retriever.py 85-104)
RagResult(doc) ==
    LET metadata == doc.metadata
        res == [content |-> "[METADATA ONLY]",
                title |-> Get(metadata, "title", Get(metadata, "name", "Unknown")),
                source |-> Get(metadata, "source", ""),
                chunk_id |-> Get(metadata, "chunk_id", ""),
                file_id |-> Get(metadata, "file_id", "")]
    IN  res @@ metadata

RECURSIVE RagRetrieve(_)
\* RAGRetriever.retrieve on the documents the search returns
RagRetrieve(docs) ==
    IF docs = <<>> THEN <<>>
    ELSE <<RagResult(Head(docs))>> \o RagRetrieve(Tail(docs))

\* an indexed document with the usual metadata
Doc(title, source, file_id) ==
    IndexDoc("body text",
             [title |-> title, source |-> source, file_id |-> file_id])

Entity(name, label) == [name |-> name, label |-> label]

\* what the two indexes answer in one run: their records, or a raised error
RetrievalEnvs ==
    { [rag_raises |-> FALSE, docs |-> <<>>, kag_raises |-> FALSE, ents |-> <<>>],
      [rag_raises |-> FALSE,
       docs |-> <<Doc("sales", "sales.csv", "f1"), Doc("sales", "sales.csv", "f1"),
                  Doc("orders", "orders.csv", "f2"), Doc("returns", "returns.csv", "f5")>>,
       kag_raises |-> FALSE, ents |-> <<Entity("Acme", "Company")>>],
      [rag_raises |-> FALSE, docs |-> <<Doc("sales", "sales.csv", "f1")>>,
       kag_raises |-> TRUE, ents |-> <<>>],
      [rag_raises |-> TRUE, docs |-> <<>>, kag_raises |-> FALSE, ents |-> <<>>] }

EmptyContext ==
    [rag_results |-> <<>>, kag_results |-> <<>>, sources_used |-> <<>>,
     context_text |-> NoneText]

\* a string as the pieces an underscore separates, for the strings that
\* contain one
Pieces(x) ==
    CASE x = "q3_sales" -> <<"q3", "_", "sales">>
      [] x = "sales_2024.csv" -> <<"sales", "_", "2024.csv">>
      [] OTHER -> <<x>>

\* variant: the key is the title alone
FileKeyTitleOnly(title, fname) == Pieces(title)

\* f"{title}_{fname}"
FileKey(title, fname) == Pieces(title) \o <<"_">> \o Pieces(fname)

\* os.path.basename for a name with a separator in it
Basename(fname) ==
    CASE fname = "uploads/orders.csv" -> "orders.csv"
      [] OTHER -> fname

RECURSIVE DocLines(_, _)
\* the document lines of the context text, deduplicated on the key made of
\* title and filename (agent.py 153-171)
DocLines(docs, seen_files) ==
    IF docs = <<>> THEN <<>>
    ELSE LET doc == Head(docs)
             title == Get(doc, "title", "Unknown")
             fname == Basename(Or(Get(doc, "metadata_storage_name", ""),
                                  Or(Get(doc, "source", ""),
                                     Or(Get(doc, "filename", ""), "Unknown File"))))
             file_key == FileKey(title, fname)
             file_id == Or(Get(doc, "file_id", ""), Or(Get(doc, "id", ""), "unknown_id"))
         IN  IF file_key \notin seen_files
             THEN <<"[Doc]", title, file_id, fname>>
                  \o DocLines(Tail(docs), seen_files \cup {file_key})
             ELSE DocLines(Tail(docs), seen_files)

RECURSIVE EntityLinesSeen(_, _)
EntityLinesSeen(ents, seen) ==
    IF ents = <<>> THEN <<>>
    ELSE IF Head(ents).name \in seen THEN EntityLinesSeen(Tail(ents), seen)
    ELSE <<"[Graph]", Head(ents).label, Head(ents).name>>
         \o EntityLinesSeen(Tail(ents), seen \cup {Head(ents).name})

\* variant: an entity name is rendered at its first occurrence only
EntityLinesDedup(ents) == EntityLinesSeen(ents, {})

RECURSIVE EntityLines(_)
\* one line per entity handed over (agent.py 175-178)
EntityLines(ents) ==
    IF ents = <<>> THEN <<>>
    ELSE <<"[Graph]", Head(ents).label, Head(ents).name>> \o EntityLines(Tail(ents))

\* variant: the handler hands back a context emptied of what was stored
RetrievalExceptResets(context) == EmptyContext

\* the handler of retrieve_context (agent.py 186-191): the context as it
\* stands when the error is raised is what the caller gets
RetrievalExcept(context) == context

RetrieveContext(env) ==
    IF env.rag_raises THEN RetrievalExcept(EmptyContext)
    ELSE LET rag_docs == RagRetrieve(env.docs)
             c1 == IF rag_docs # <<>>
                   THEN [EmptyContext EXCEPT
                            !.rag_results = rag_docs,
                            !.sources_used = <<"Azure AI Search (Direct Metadata)">>]
                   ELSE EmptyContext
         IN  IF env.kag_raises THEN RetrievalExcept(c1)
             ELSE LET c2 == IF env.ents # <<>>
                            THEN [c1 EXCEPT
                                     !.kag_results = env.ents,
                                     !.sources_used =
                                         Append(c1.sources_used,
                                                "Cosmos DB Gremlin (Direct Graph)")]
                            ELSE c1
                      parts ==
                          <<"=== AVAILABLE METADATA (Direct Access) ===">>
                          \o (IF rag_docs # <<>>
                              THEN <<"Documents (Metadata):">> \o DocLines(rag_docs, {})
                              ELSE <<>>)
                          \o (IF env.ents # <<>>
                              THEN <<"Knowledge Graph (Structure):">>
                                   \o EntityLines(SubSeq(env.ents, 1,
                                          IF Len(env.ents) < 10 THEN Len(env.ents) ELSE 10))
                              ELSE <<>>)
                          \o (IF rag_docs = <<>> /\ env.ents = <<>>
                              THEN <<"No relevant metadata found for this query.">>
                              ELSE <<>>)
                  IN  [c2 EXCEPT !.context_text = parts]

\* str(e) of the error a retriever, or its construction, raises under env;
\* "" if none does
RetrievalError(env) ==
    IF env.rag_raises THEN "document index error"
    ELSE IF env.kag_raises THEN "graph index error"
    ELSE ""

\* variant: retrieve_context lets the error of a retriever out
RetrieveOutcomePropagates(env) ==
    [raised |-> RetrievalError(env) # "", msg |-> RetrievalError(env),
     context |-> RetrieveContext(env)]

\* retrieve_context as its caller sees it: the handler at agent.py 186-189
\* keeps every error in and the context built so far is returned
RetrieveOutcome(env) ==
    [raised |-> FALSE, msg |-> "", context |-> RetrieveContext(env)]

\* the keys a retrieved record can have, in the order they were inserted
ResultKeys ==
    <<"content", "title", "source", "chunk_id", "file_id", "name",
      "metadata_storage_name", "filename", "id", "author">>

RECURSIVE StrRecord(_, _)
\* str(r) of one retrieved record: its keys and values from the i-th key on
StrRecord(r, i) ==
    IF i > Len(ResultKeys) THEN <<>>
    ELSE (IF ResultKeys[i] \in DOMAIN r THEN <<ResultKeys[i], r[ResultKeys[i]]>> ELSE <<>>)
         \o StrRecord(r, i + 1)

RECURSIVE StrRecords(_)
\* str(r) of the retrieved records, one after the other
StrRecords(docs) ==
    IF docs = <<>> THEN <<>>
    ELSE StrRecord(Head(docs), 1) \o StrRecords(Tail(docs))

FirstN(seq, n) == SubSeq(seq, 1, IF Len(seq) < n THEN Len(seq) ELSE n)

\* base_system_prompt (agent.py 213-220)
SystemPrompt(a, retrieved_context) ==
    <<"DATA ACCESS POLICY", a>>
    \o (IF retrieved_context.context_text # NoneText
        THEN retrieved_context.context_text
        ELSE IF retrieved_context.rag_results # <<>>
        THEN <<"Relevant information from uploaded documents:">>
             \o StrRecords(FirstN(retrieved_context.rag_results, 5))
        ELSE <<>>)

(***************************************************************************)
(* Messages and the initial transcript (agent.py 226-227)                  *)
(***************************************************************************)
Message(role, content, tool_calls, tool_call_id, fname) ==
    [role |-> role, content |-> content, tool_calls |-> tool_calls,
     tool_call_id |-> tool_call_id, name |-> fname]

InitialMessages(a, query, retrieved_context) ==
    << Message("system", SystemPrompt(a, retrieved_context), <<>>, 0, ""),
       Message("user", query, <<>>, 0, "") >>

(***************************************************************************)
(* AgentResponse                                                           *)
(***************************************************************************)
NoError == ""

NoMetadata == [context_used |-> FALSE, sources_used |-> <<>>, data_access |-> ""]

AgentResponse(content, agent_name, sources, metadata, success, error) ==
    [content |-> content, agent_name |-> agent_name, sources |-> sources,
     metadata |-> metadata, success |-> success, error |-> error]

\* no response yet
NoResponse == AgentResponse(NoneText, "", <<>>, NoMetadata, FALSE, NoError)

RECURSIVE Titles(_)
Titles(docs) ==
    IF docs = <<>> THEN <<>>
    ELSE <<Get(Head(docs), "title", Get(Head(docs), "content", ""))>>
         \o Titles(Tail(docs))

\* variant: every retrieved title is a source
DoneResponseAllTitles(a, content, retrieved_context) ==
    AgentResponse(content, AgentName(a),
                  retrieved_context.sources_used
                      \o Titles(retrieved_context.rag_results),
                  [context_used |-> retrieved_context.rag_results # <<>>,
                   sources_used |-> retrieved_context.sources_used,
                   data_access |-> "Hybrid RAG + Code Interpreter"],
                  TRUE, NoError)

\* the final answer (agent.py 395-408)
DoneResponse(a, content, retrieved_context) ==
    AgentResponse(content, AgentName(a),
                  retrieved_context.sources_used
                      \o Titles(FirstN(retrieved_context.rag_results, 3)),
                  [context_used |-> retrieved_context.rag_results # <<>>,
                   sources_used |-> retrieved_context.sources_used,
                   data_access |-> "Hybrid RAG + Code Interpreter"],
                  TRUE, NoError)

\* variant: the loop is left and nothing is returned
ExhaustedResponseNone(a) == NoResponse

\* the loop was left without an answer (agent.py 418-423)
ExhaustedResponse(a) ==
    AgentResponse(<<"I tried to process your request but reached the maximum allowed steps or encountered repeated errors.">>,
                  AgentName(a), <<>>, NoMetadata, FALSE,
                  "Max steps or retries exceeded")

\* variant: no text stands in for an empty message
UnknownErrorEmpty(a) == ""

UnknownError(a) ==
    CASE a = "orchestrator" -> "Unknown error in Orchestrator agent"
      [] a = "python" -> "Unknown error in Python Agent agent"
      [] a = "researcher" -> "Unknown error in Market Researcher agent"

\* variant: every failure is reported with the standard message
OuterExceptStandard(a, msg) == [pc |-> "done", resp |-> ExhaustedResponse(a)]

\* variant: the outermost handler lets the exception through
OuterExceptPropagates(a, msg) == [pc |-> "raised", resp |-> NoResponse]

\* the outermost handler (agent.py 425-433): how an invocation ends when an
\* exception with message msg reaches it
OuterExcept(a, msg) ==
    LET error_msg == IF msg # "" THEN msg ELSE UnknownError(a)
    IN  [pc |-> "done",
         resp |-> AgentResponse(<<"I apologize, I encountered an issue:", error_msg>>,
                                AgentName(a), <<>>, NoMetadata, FALSE, error_msg)]

(***************************************************************************)
(* The gateway and its responses                                           *)
(***************************************************************************)
QTextOnly == <<"text only:", "show", "loop">>
QExecute == <<"execute:", "sum">>
QPlain == <<"list", "tables">>

Queries == {QTextOnly, QExecute, QPlain}

\* a tool call as the gateway returns it: arguments are valid JSON or not,
\* agent_name and query are the keys route_to_agent reads (<<>>: key absent);
\* oracle is what the called tool does when it runs
ToolCall(fname, valid, agent_name, query, oracle) ==
    [name |-> fname, valid |-> valid, agent_name |-> agent_name,
     query |-> query, oracle |-> oracle]

TSearchOk == ToolCall("search_documents", TRUE, "", <<>>, "ok")
TSearchRaise == ToolCall("search_documents", TRUE, "", <<>>, "raise")
TExecute == ToolCall("execute", TRUE, "", <<>>, "ok")
TAttr == ToolCall("name", TRUE, "", <<>>, "ok")
TUnknown == ToolCall("generate_sql", TRUE, "", <<>>, "ok")
TReduce == ToolCall("__reduce__", TRUE, "", <<>>, "ok")
TDbxOk == ToolCall("execute_databricks_code", TRUE, "", <<>>, "ok")
TDbxError == ToolCall("execute_databricks_code", TRUE, "", <<>>, "error")
TDbxRaise == ToolCall("execute_databricks_code", TRUE, "", <<>>, "raise")
TDbxBadArgs == ToolCall("execute_databricks_code", FALSE, "", <<>>, "ok")
\* the arguments are JSON but not an object, as "[]": args.get raises
TDbxNotObject == ToolCall("execute_databricks_code", TRUE, "", <<>>, "not object")
TRoutePyText == ToolCall("route_to_agent", TRUE, "python", QTextOnly, "ok")
TRouteResearcher == ToolCall("route_to_agent", TRUE, "researcher", <<>>, "ok")
TRouteMissing == ToolCall("route_to_agent", TRUE, "writer", QPlain, "ok")
TRouteBadArgs == ToolCall("route_to_agent", FALSE, "", <<>>, "ok")

\* the tool-call lists a response carries: between them they reach every
\* branch of the dispatch
ToolCallLists ==
    { <<TDbxOk>>,
      <<TSearchOk, TRouteResearcher, TDbxOk>>,
      <<TRoutePyText>>,
      <<TRouteMissing, TRouteBadArgs, TSearchRaise, TDbxRaise, TDbxError>>,
      <<TExecute, TAttr, TUnknown, TDbxBadArgs, TDbxNotObject>>,
      <<TSearchOk, TReduce, TDbxOk>> }

GatewayResponse(kind, msg, content, calls) ==
    [kind |-> kind, msg |-> msg, content |-> content, calls |-> calls]

TextPlain == <<"The", "answer">>
TextSummary == <<"[Task: Fibonacci]", "The", "answer">>
TextEchoRoute == <<"route_to_agent", "(python)">>
TextEchoCode == <<"I", "call", "execute_databricks_code">>

Responses ==
    { GatewayResponse("raise", m, NoneText, <<>>) : m \in {"numbered", ""} }
    \cup { GatewayResponse("text", "", c, <<>>) :
             c \in {TextPlain, TextSummary, TextEchoRoute, TextEchoCode} }
    \cup { GatewayResponse("tools", "",
                            CASE l = <<TDbxOk>> -> TextSummary
                              [] TAttr \in {l[i] : i \in DOMAIN l} -> EmptyString
                              [] OTHER -> NoneText, l) :
             l \in ToolCallLists }

\* str(e) of the k-th error the gateway raises within one invocation
GatewayErrorMsg(msg, k) ==
    IF msg = "" THEN ""
    ELSE CASE k = 1 -> "Azure OpenAI error: 1"
           [] k = 2 -> "Azure OpenAI error: 2"
           [] OTHER -> "Azure OpenAI error: 3"

\* re.search(r'\[(?:Task|Summary):\s*(.*?)\]', content): the label or <<>>
SummaryMatch(content) ==
    IF Contains(content, "[Task: Fibonacci]") THEN <<"Fibonacci">>
    ELSE IF Contains(content, "[Summary:") THEN <<"route_to_agent">>
    ELSE <<>>

(***************************************************************************)
(* Tool dispatch for one tool call (agent.py 299-369)                      *)
(***************************************************************************)
Event(type, content) == [type |-> type, content |-> content]

ToolOutput(content, evs) ==
    [kind |-> "output", content |-> content, events |-> evs,
     target |-> "", query |-> <<>>, ran |-> FALSE]

\* variant: the outcome of a sandbox call without its observation event
SandboxOutcomeSilent(content, evs) ==
    [ToolOutput(content, <<Event("code_execution", <<"code">>)>>) EXCEPT !.ran = TRUE]

\* the outcome of a call that got as far as execute_code (agent.py 321-342):
\* the code_execution event precedes the run, the observation follows it
SandboxOutcome(content, evs) ==
    [ToolOutput(content, <<Event("code_execution", <<"code">>)>> \o evs) EXCEPT
        !.ran = TRUE]

\* variant: the handler records no error for the call
ToolExceptionNoDetail(msg, evs) == ToolOutput(<<"null">>, evs)

\* the handler of the inner try (agent.py 365-369)
ToolException(msg, evs) ==
    ToolOutput(<<"status:error", msg>>,
               evs \o <<Event("observation", <<"Tool execution exception:", msg>>)>>)

\* a tool output json.dumps raises TypeError on (agent.py 376)
Unserializable ==
    [kind |-> "unserializable", content |-> <<"not JSON serializable">>,
     events |-> <<>>, target |-> "", query |-> <<>>, ran |-> FALSE]

Delegation(target, query) ==
    [kind |-> "delegate", content |-> NoneText, events |-> <<>>,
     target |-> target, query |-> query, ran |-> FALSE]

\* variant: the error does not say which agent is missing
AgentNotFoundUnnamed(target) == ToolOutput(<<"status:error", "Agent not found">>, <<>>)

\* the outcome of a route_to_agent call whose target the registry does not
\* know (agent.py 357-359)
AgentNotFound(target) ==
    ToolOutput(<<"status:error", "Agent", target, "not found">>, <<>>)

\* a: the calling agent; query: the query of its invocation; can_recurse: the
\* interpreter's stack admits one more nested execute ("overflow" if not)
DispatchTool(a, call, query, can_recurse) ==
    IF ~call.valid THEN ToolException("JSONDecodeError", <<>>)
    ELSE IF HasAttr(a, call.name) /\ call.name # "execute"
    THEN IF call.name \in CallableAttrs(a)
         THEN IF call.oracle = "raise" THEN ToolException("tool raised", <<>>)
              ELSE IF ~JsonSerializable(call.name) THEN Unserializable
              ELSE ToolOutput(<<"status:success", call.name>>, <<>>)
         ELSE ToolOutput(<<"null">>, <<>>)
    ELSE IF call.name = "execute_databricks_code"
    THEN CASE call.oracle = "ok" ->
                SandboxOutcome(<<"status:success", "output">>,
                               <<Event("observation", <<"output">>)>>)
           [] call.oracle = "error" ->
                SandboxOutcome(<<"status:error", "sandbox error">>,
                               <<Event("observation", <<"Error:", "sandbox error">>)>>)
           [] call.oracle = "not object" ->
                ToolException("AttributeError", <<>>)
           [] OTHER ->
                SandboxOutcome(ToolException("sandbox raised", <<>>).content,
                               ToolException("sandbox raised", <<>>).events)
    ELSE IF call.name = "route_to_agent"
    THEN LET target == call.agent_name
             query_to_route == IF call.query # <<>> THEN call.query ELSE query
         IN  IF RegistryGetAgent(target) # "absent"
             THEN [Delegation(RegistryGetAgent(target), query_to_route) EXCEPT
                      !.kind = IF can_recurse THEN "delegate" ELSE "overflow"]
             ELSE AgentNotFound(target)
    ELSE ToolOutput(<<"status:error", "Tool", call.name, "not implemented">>, <<>>)

\* the tool-role message that feeds one observation back (agent.py 371-377)
ToolMessage(tool_call, content) ==
    Message("tool", content, <<>>, tool_call.id, tool_call.name)

\* the assistant message appended for a response with tool calls
\* (agent.py 283-289)
AssistantMessage(response_content, tool_calls) ==
    Message("assistant",
            IF Truthy(response_content) THEN NoneText ELSE response_content,
            tool_calls, 0, "")

\* variant: the turn is counted but tools stay on offer
AfterToolTurnKeepsTools(f) ==
    [f EXCEPT !.step_count = @ + 1, !.tool_turns = @ + 1, !.pc = "planning"]

\* variant: a turn counts as a tool execution only if one of its tool calls
\* produced something other than an error
AfterToolTurnUnlessErrors(f) ==
    [f EXCEPT !.step_count = @ + 1,
              !.has_executed_tool =
                  @ \/ \E k \in (LastAssistant(f.messages) + 1)..Len(f.messages) :
                          Head(f.messages[k].content) # "status:error",
              !.tool_turns = @ + 1, !.pc = "planning"]

\* the counters after a turn whose tool calls were all processed
\* (agent.py 379-381)
AfterToolTurn(f) ==
    [f EXCEPT !.step_count = @ + 1, !.has_executed_tool = TRUE,
              !.tool_turns = @ + 1, !.pc = "planning"]

\* variant: a text with a summary marker is taken for an echo as well
LooksLikeToolCallOrMarker(content) ==
    content # NoneText
    /\ (Contains(content, "route_to_agent")
        \/ Contains(content, "execute_databricks_code")
        \/ SummaryMatch(content) # <<>>)

\* variant: the guard knows one tool name only
LooksLikeToolCallRouteOnly(content) ==
    content # NoneText /\ Contains(content, "route_to_agent")

\* the anti-echo guard (agent.py 388)
LooksLikeToolCall(content) ==
    content # NoneText
    /\ (Contains(content, "route_to_agent")
        \/ Contains(content, "execute_databricks_code"))

(***************************************************************************)
(* State                                                                   *)
(***************************************************************************)
VARIABLES
    stack,          \* session -> the frames of its nested execute invocations
    events,         \* session -> what its progress callback has received
    callback,       \* session -> a callback was supplied
    current_query,  \* PythonAgent._current_query of the one Python agent
    script,         \* the responses the gateway stub plays, round-robin
    cursor,         \* calls the gateway has answered, modulo the script
    llm_available,  \* self.llm is not None
    retrieval_env,  \* what the document and graph indexes answer
    files           \* the uploaded file: its blob, its index entry, its tasks

vars == <<stack, events, callback, current_query, script, cursor,
          llm_available, retrieval_env, files>>

\* the file endpoints are not in use
NoFiles == [blob |-> "absent", indexed |-> FALSE, task |-> "none", delete |-> "idle",
            index_outcome |-> "success", delete_raises |-> FALSE]

\* the context argument of execute: None, or a dict with a data summary
NoContext == <<>>
WithSummary == [data_summary |-> "3 rows"]

\* variant: the data summary is appended whatever the context holds
EnhancedQueryAlways(a, query, context) ==
    IF a = "python" THEN query \o <<"Data available:", "3 rows">> ELSE query

\* the query an agent's execute hands to the loop: PythonAgent.execute
\* appends the data summary of the context (python_agent/agent.py 134-140),
\* the other agents pass the query on unchanged
EnhancedQuery(a, query, context) ==
    IF a = "python" /\ context # NoContext /\ "data_summary" \in DOMAIN context
    THEN query \o <<"Data available:", context.data_summary>>
    ELSE query

NewFrame(a, query, context) ==
    [agent |-> a, query |-> query, context |-> context, pc |-> "start",
     step_count |-> 0, retry_count |-> 0, has_executed_tool |-> FALSE,
     retrieved_context |-> EmptyContext, messages |-> <<>>,
     pending |-> <<>>, resp |-> NoResponse,
     \* history of the invocation, read by the properties only
     calls |-> <<>>, tool_turns |-> 0, acting |-> 0, delegated |-> FALSE,
     caller_query |-> query, retrieved_with |-> <<>>, sandbox_runs |-> 0,
     gateway_errors |-> 0]

Sessions == DOMAIN stack

Top(s) == stack[s][Len(stack[s])]

SetTop(s, f) == [stack EXCEPT ![s] = [@ EXCEPT ![Len(@)] = f]]

Emit(s, evs) ==
    events' = [events EXCEPT ![s] = IF callback[s] THEN @ \o evs ELSE @]

\* a gateway that fails twice and then echoes a tool name nine times over
BudgetScript ==
    <<GatewayResponse("raise", "", NoneText, <<>>),
      GatewayResponse("raise", "", NoneText, <<>>)>>
    \o [i \in 1..9 |-> GatewayResponse("text", "", TextEchoCode, <<>>)]

Scripts == UNION {[1..n -> Responses] : n \in 1..MaxScript} \cup {BudgetScript}

\* the invocations a caller makes: the Python agent's tool choice reads the
\* query, the other agents' does not
Invocations ==
    { <<"orchestrator", QPlain, NoContext>>, <<"python", QTextOnly, NoContext>>,
      <<"python", QExecute, WithSummary>> }

\* one caller; without a gateway the script is never played
Init ==
    /\ stack \in {[s \in {1} |-> <<NewFrame(i[1], i[2], i[3])>>] : i \in Invocations}
    /\ events = [s \in {1} |-> <<>>]
    /\ callback \in [{1} -> BOOLEAN]
    /\ current_query = <<>>
    /\ cursor = 0
    /\ script \in Scripts
    /\ llm_available \in BOOLEAN
    /\ llm_available \/ script = <<GatewayResponse("text", "", TextPlain, <<>>)>>
    /\ files = NoFiles
    /\ retrieval_env \in {e \in RetrievalEnvs : ~e.rag_raises /\ e.docs # <<>>}

(***************************************************************************)
(* Actions: the blocks of execute between two suspension points            *)
(***************************************************************************)
\* entry of execute up to the retrieval call; PythonAgent.execute first
\* tracks the query on the agent object (python_agent/agent.py 133)
Begin(f) ==
    [f EXCEPT !.pc = "retrieving",
              !.query = EnhancedQuery(f.agent, f.query, f.context)]

TrackQuery(f, cq) == IF f.agent = "python" THEN f.query ELSE cq

\* a caller invokes execute
Start(s) ==
    /\ Top(s).pc = "start"
    /\ stack' = SetTop(s, Begin(Top(s)))
    /\ current_query' = TrackQuery(Top(s), current_query)
    /\ UNCHANGED <<events, callback, script, cursor, llm_available, retrieval_env, files>>

\* retrieval answers; the transcript is built (agent.py 207-238)
Retrieve(s) ==
    /\ Top(s).pc = "retrieving"
    /\ \E outcome \in {RetrieveOutcome(retrieval_env)} :
        LET f == Top(s)
            retrieved_context == outcome.context
            out == OuterExcept(f.agent, outcome.msg)
        IN
        /\ stack' = SetTop(s,
               IF outcome.raised
               THEN [f EXCEPT !.pc = out.pc, !.resp = out.resp]
               ELSE [f EXCEPT
                       !.retrieved_context = retrieved_context,
                       !.retrieved_with = Append(@, f.query),
                       !.messages = InitialMessages(f.agent, f.query, retrieved_context),
                       !.pc = "planning"])
        /\ Emit(s, IF outcome.raised THEN <<>>
                   ELSE <<Event("thinking", <<"Planning how to answer:">> \o f.query)>>)
        /\ UNCHANGED <<callback, current_query, script, cursor, llm_available,
                       retrieval_env, files>>

\* the loop ends without an answer: the step budget is spent or there is no
\* gateway (agent.py 241-242, 415-423)
LoopExit(s) ==
    LET f == Top(s)
    IN  /\ f.pc = "planning"
        /\ ~WithinBudget(f.step_count) \/ ~llm_available
        /\ stack' = SetTop(s, [f EXCEPT !.pc = "done", !.resp = ExhaustedResponse(f.agent)])
        /\ UNCHANGED <<events, callback, current_query, script, cursor,
                       llm_available, retrieval_env, files>>

\* variant: the gateway is called whether the agent has one or not
CanPlanWithoutGateway(f) == f.pc = "planning" /\ WithinBudget(f.step_count)

CanPlan(f) == f.pc = "planning" /\ WithinBudget(f.step_count) /\ llm_available

\* the response the gateway gives to the next call
NextResponse == script[cursor + 1]

GatewayAnswered == cursor' = (cursor + 1) % Len(script)

\* the frame once chat_completion has been called; the call is logged with
\* the counters it was made at
Called(f) ==
    LET c == GatewayCall(f.agent, f.has_executed_tool, current_query)
    IN  [f EXCEPT !.calls = Append(@,
            [tools |-> c.tools, tool_choice |-> c.tool_choice,
             after_tool_turns |-> f.tool_turns, retry_count |-> f.retry_count,
             step_count |-> f.step_count, messages |-> f.messages,
             has_executed_tool |-> f.has_executed_tool])]

SummaryEvents(content) ==
    IF content # NoneText /\ SummaryMatch(content) # <<>>
    THEN <<Event("query_summary", SummaryMatch(content))>> ELSE <<>>

\* variant: a failed call is not counted
GatewayErrorTurnUncounted(f) == f

\* variant: a failed call also costs a step
GatewayErrorTurnCountsStep(f) ==
    [f EXCEPT !.retry_count = @ + 1, !.step_count = @ + 1]

\* the counters after a gateway call that raised (agent.py 410-412)
GatewayErrorTurn(f) == [f EXCEPT !.retry_count = @ + 1]

\* chat_completion raises (agent.py 410-414)
GatewayRaises(s) ==
    LET r == NextResponse
        f == [GatewayErrorTurn(Called(Top(s))) EXCEPT !.gateway_errors = @ + 1]
        retry_count == f.retry_count
        out == OuterExcept(f.agent, GatewayErrorMsg(r.msg, retry_count))
    IN  /\ CanPlan(Top(s))
        /\ r.kind = "raise"
        /\ GatewayAnswered
        /\ stack' = SetTop(s,
             IF RetriesExhausted(retry_count)
             THEN [f EXCEPT !.pc = out.pc, !.resp = out.resp]
             ELSE f)
        /\ UNCHANGED <<events, callback, current_query, script, llm_available,
                       retrieval_env, files>>

\* variant: the echoed text is kept in the transcript
AntiEchoTurnAppends(f) ==
    [f EXCEPT !.step_count = @ + 1,
              !.messages = Append(@, AssistantMessage(EmptyString, <<>>))]

\* variant: the guard's turn is counted as a failed attempt too
AntiEchoTurnCountsRetry(f) ==
    [f EXCEPT !.step_count = @ + 1, !.retry_count = @ + 1]

\* the counters after the anti-echo guard fired (agent.py 388-393)
AntiEchoTurn(f) == [f EXCEPT !.step_count = @ + 1]

\* chat_completion returns a message without tool calls (agent.py 383-408)
GatewayText(s) ==
    LET r == NextResponse
        f == Called(Top(s))
        content == r.content
    IN  /\ CanPlan(Top(s))
        /\ r.kind = "text"
        /\ GatewayAnswered
        /\ stack' = SetTop(s,
             IF LooksLikeToolCall(content)
             THEN AntiEchoTurn(f)
             ELSE [f EXCEPT !.pc = "done",
                            !.resp = DoneResponse(f.agent, content,
                                                  f.retrieved_context)])
        /\ Emit(s, SummaryEvents(r.content))
        /\ UNCHANGED <<callback, current_query, script, llm_available,
                       retrieval_env, files>>

\* the tool calls of a response with the ids the gateway gave them
RECURSIVE WithIds(_, _)
WithIds(calls, base) ==
    IF calls = <<>> THEN <<>>
    ELSE <<[id |-> base + 1, name |-> Head(calls).name, valid |-> Head(calls).valid,
            agent_name |-> Head(calls).agent_name, query |-> Head(calls).query,
            oracle |-> Head(calls).oracle]>>
         \o WithIds(Tail(calls), base + 1)

\* chat_completion returns a message with tool calls (agent.py 279-289)
GatewayToolCalls(s) ==
    LET r == NextResponse
        f == Called(Top(s))
        tool_calls == WithIds(r.calls, 10 * Len(f.calls))
    IN  /\ CanPlan(Top(s))
        /\ r.kind = "tools"
        /\ GatewayAnswered
        /\ stack' = SetTop(s, [f EXCEPT
                !.messages = Append(@, AssistantMessage(r.content, tool_calls)),
                !.pending = tool_calls,
                !.acting = @ + 1,
                !.pc = "acting"])
        /\ Emit(s, SummaryEvents(r.content))
        /\ UNCHANGED <<callback, current_query, script, llm_available,
                       retrieval_env, files>>

\* the observation of the first pending tool call is appended; after the last
\* one the turn ends (agent.py 371-381)
Observe(f, content) ==
    LET g == [f EXCEPT !.messages = Append(@, ToolMessage(Head(f.pending), content)),
                       !.pending = Tail(@),
                       !.pc = "acting"]
    IN  IF g.pending = <<>> THEN AfterToolTurn(g) ELSE g

\* variant: the delegating agent puts its own name on the response
DelegatedResponseRelabelled(a, delegated_response) ==
    [delegated_response EXCEPT !.agent_name = AgentName(a)]

\* what the delegating invocation returns (agent.py 354-356)
DelegatedResponse(a, delegated_response) == delegated_response

\* variant: the delegate's answer becomes the observation of the call and the
\* loop goes on
ReturnDelegatedContinues(f, delegated_response) ==
    Observe(f, delegated_response.content)

\* the delegating frame once the delegate has returned (agent.py 354-356)
ReturnDelegated(f, delegated_response) ==
    [f EXCEPT !.pc = "done", !.resp = DelegatedResponse(f.agent, delegated_response)]

\* str(e) of the RecursionError the interpreter raises at its stack limit
RecursionErrorMsg == "maximum recursion depth exceeded"

\* the delegating frame when the nested execute does not fit the stack: the
\* RecursionError surfaces either in the caller at the call, where the inner
\* handler makes an observation of it, or inside the callee, whose outermost
\* handler turns it into the response the caller returns
Overflow(f, target, in_callee) ==
    LET out == OuterExcept(target, RecursionErrorMsg)
        exc == ToolException(RecursionErrorMsg, <<>>)
    IN  IF in_callee /\ out.pc = "done"
        THEN [frame |-> [ReturnDelegated(f, out.resp) EXCEPT !.delegated = TRUE],
              events |-> <<>>]
        ELSE [frame |-> Observe(f, exc.content), events |-> exc.events]

\* variant: the handler takes the messages of the aborted turn back
TurnAbortedRollsBack(f, msg) ==
    LET g == [GatewayErrorTurn(f) EXCEPT
                 !.pending = <<>>, !.pc = "planning",
                 !.messages = SubSeq(@, 1, LastAssistant(@) - 1)]
        out == OuterExcept(f.agent, msg)
    IN  IF RetriesExhausted(g.retry_count)
        THEN [g EXCEPT !.pc = out.pc, !.resp = out.resp]
        ELSE g

\* an exception raised in the turn outside the inner try, as by json.dumps at
\* 376, reaches the handler of the gateway call (agent.py 410-414): the rest
\* of the turn is dropped and the attempt counts as failed
TurnAborted(f, msg) ==
    LET g == [GatewayErrorTurn(f) EXCEPT !.pending = <<>>, !.pc = "planning"]
        out == OuterExcept(f.agent, msg)
    IN  IF RetriesExhausted(g.retry_count)
        THEN [g EXCEPT !.pc = out.pc, !.resp = out.resp]
        ELSE g

\* the next tool call of the turn is dispatched (agent.py 291-377)
ExecTool(s) ==
    LET f == Top(s)
        tool_call == Head(f.pending)
        d == DispatchTool(f.agent, tool_call, f.query, Len(stack[s]) < MaxDepth)
        callee == NewFrame(d.target, d.query, f.context)
        thinking == <<Event("thinking", <<"Executing tool:", tool_call.name>>)>>
    IN  /\ f.pc = "acting"
        /\ f.pending # <<>>
        /\ CASE d.kind = "delegate" ->
                /\ stack' = [stack EXCEPT ![s] =
                       Append([@ EXCEPT ![Len(@)] = [f EXCEPT !.pc = "delegating"]],
                              Begin(callee))]
                /\ current_query' = TrackQuery(callee, current_query)
                /\ Emit(s, thinking)
             [] d.kind = "overflow" ->
                \E in_callee \in BOOLEAN :
                    LET o == Overflow(f, d.target, in_callee)
                    IN  /\ stack' = SetTop(s, o.frame)
                        /\ current_query' =
                               IF in_callee THEN TrackQuery(callee, current_query)
                               ELSE current_query
                        /\ Emit(s, thinking \o o.events)
             [] d.kind = "unserializable" ->
                /\ stack' = SetTop(s, TurnAborted(f, "Object of type function is not JSON serializable"))
                /\ UNCHANGED current_query
                /\ Emit(s, thinking)
             [] OTHER ->
                /\ stack' = SetTop(s, [Observe(f, d.content) EXCEPT
                       !.sandbox_runs = IF d.ran THEN @ + 1 ELSE @])
                /\ UNCHANGED current_query
                /\ Emit(s, thinking \o d.events)
        /\ UNCHANGED <<callback, script, cursor, llm_available, retrieval_env, files>>

\* the delegate's execute is over: its response is returned as it is; had it
\* raised, the inner handler would make an observation of it (agent.py 354-369)
DelegateReturn(s) ==
    LET n == Len(stack[s])
        child == stack[s][n]
        parent == stack[s][n - 1]
        exc == ToolException("delegate raised", <<>>)
    IN  /\ n > 1
        /\ child.pc \in {"done", "raised"}
        /\ stack' = [stack EXCEPT ![s] =
               Append(SubSeq(@, 1, n - 2),
                      IF child.pc = "done"
                      THEN [ReturnDelegated(parent, child.resp) EXCEPT !.delegated = TRUE]
                      ELSE Observe(parent, exc.content))]
        /\ Emit(s, IF child.pc = "done" THEN <<>> ELSE exc.events)
        /\ UNCHANGED <<callback, current_query, script, cursor, llm_available,
                       retrieval_env, files>>

Next ==
    \/ \E s \in Sessions : Start(s)
    \/ \E s \in Sessions : Retrieve(s)
    \/ \E s \in Sessions : LoopExit(s)
    \/ \E s \in Sessions : GatewayRaises(s)
    \/ \E s \in Sessions : GatewayText(s)
    \/ \E s \in Sessions : GatewayToolCalls(s)
    \/ \E s \in Sessions : ExecTool(s)
    \/ \E s \in Sessions : DelegateReturn(s)

Spec == Init /\ [][Next]_vars

\* every await returns or raises in finite time: a step that can be taken is
\* eventually taken
FairSpec == Spec /\ WF_vars(Next)

\* the documents the search can return: the same title under two files, a
\* title under the name key with the body also stored under the content key,
\* two documents whose title and filename join to the same key, and one
\* without title or file
IndexDocs ==
    { Doc("sales", "sales.csv", "f1"),
      Doc("sales", "west.csv", "f3"),
      IndexDoc("body text", [name |-> "orders", source |-> "uploads/orders.csv",
                             content |-> "body text", author |-> "ann"]),
      IndexDoc("body text", [title |-> "q3_sales",
                             metadata_storage_name |-> "2024.csv", id |-> "f4"]),
      IndexDoc("body text", [title |-> "q3", filename |-> "sales_2024.csv"]),
      IndexDoc("body text", [chunk_id |-> "c1"]) }

DocLists == UNION {[1..n -> IndexDocs] : n \in 0..MaxDocs}

\* one caller asks the researcher; the indexes answer with any of the
\* document lists or raise; the gateway answers in text, echoes a tool name
\* or raises
Entities == {Entity("Acme", "Company"), Entity("Acme", "Person"),
             Entity("Globex", "Company")}

\* the answers of the graph index: every list of up to MaxEnts entities, and
\* one of eleven, longer than what the context text shows
EntityLists ==
    UNION {[1..n -> Entities] : n \in 0..MaxEnts}
    \cup {[i \in 1..11 |-> IF i \in {1, 11} THEN Entity("Acme", "Company")
                                           ELSE Entity("Globex", "Company")]}

InitRetr ==
    /\ stack = [s \in {1} |-> <<NewFrame("researcher", QPlain, NoContext)>>]
    /\ events = [s \in {1} |-> <<>>]
    /\ callback = [s \in {1} |-> TRUE]
    /\ current_query = <<>>
    /\ cursor = 0
    /\ script \in [{1} -> {r \in Responses : r.kind # "tools" /\ r.content # TextEchoCode}]
    /\ llm_available = TRUE
    /\ files = NoFiles
    /\ retrieval_env \in
          { [rag_raises |-> FALSE, docs |-> l, kag_raises |-> k, ents |-> e] :
               l \in DocLists, k \in BOOLEAN,
               e \in {<<>>, <<Entity("Acme", "Company")>>} }
          \cup {e \in RetrievalEnvs : e.rag_raises}
          \cup { [rag_raises |-> FALSE, docs |-> <<>>, kag_raises |-> FALSE,
                  ents |-> e] : e \in EntityLists }

NextRetr ==
    \/ \E s \in Sessions : Start(s)
    \/ \E s \in Sessions : Retrieve(s)
    \/ \E s \in Sessions : LoopExit(s)
    \/ \E s \in Sessions : GatewayRaises(s)
    \/ \E s \in Sessions : GatewayText(s)

SpecRetr == InitRetr /\ [][NextRetr]_vars

\* two callers invoke the one Python agent of the registry concurrently; their
\* invocations interleave at the suspension points
InitConc ==
    /\ stack \in {[s \in {1, 2} |-> <<NewFrame("python", q[s], NoContext)>>] :
                     q \in [{1, 2} -> {QTextOnly, QExecute}]}
    /\ events = [s \in {1, 2} |-> <<>>]
    /\ callback = [s \in {1, 2} |-> FALSE]
    /\ current_query = <<>>
    /\ cursor = 0
    /\ script \in [{1} -> {r \in Responses : r.kind = "tools" => Len(r.calls) = 1}]
    /\ llm_available = TRUE
    /\ files = NoFiles
    /\ retrieval_env \in {e \in RetrievalEnvs : e.kag_raises}

SpecConc == InitConc /\ [][Next]_vars

\* the words of the queries the classification is tried on: the two prefixes
\* in several cases, a write keyword, a run keyword, a word that contains a
\* run keyword and a word that is no keyword
QueryTokens ==
    {"text only:", "Text Only:", "EXECUTE:", "Execute:", "Write", "show",
     "run", "prune", "sum"}

ChoiceQueries == UNION {[1..n -> QueryTokens] : n \in 0..MaxQuery}

\* a caller invokes the Python agent with any of the queries; the gateway
\* answers the first call in text
InitChoice ==
    /\ stack \in {[s \in {1} |-> <<NewFrame("python", q, NoContext)>>] : q \in ChoiceQueries}
    /\ events = [s \in {1} |-> <<>>]
    /\ callback = [s \in {1} |-> FALSE]
    /\ current_query = <<>>
    /\ cursor = 0
    /\ script = <<GatewayResponse("text", "", TextPlain, <<>>)>>
    /\ llm_available = TRUE
    /\ files = NoFiles
    /\ retrieval_env \in {e \in RetrievalEnvs : e.rag_raises}

NextChoice ==
    \/ \E s \in Sessions : Start(s)
    \/ \E s \in Sessions : Retrieve(s)
    \/ \E s \in Sessions : GatewayText(s)

SpecChoice == InitChoice /\ [][NextChoice]_vars

\* the markers a gateway text can carry: a task label, and a summary whose
\* label names a tool
Markers == {<<"[Task: Fibonacci]">>, <<"[Summary:", "route_to_agent", "]">>}

\* the responses of the gateway without a marker
PlainResponses ==
    { GatewayResponse("raise", "numbered", NoneText, <<>>) }
    \cup { GatewayResponse("text", "", c, <<>>) : c \in {TextPlain, TextEchoCode} }
    \cup { GatewayResponse("tools", "", NoneText, l) : l \in ToolCallLists }

\* the response makes the agent delegate
Delegates(r) ==
    /\ r.kind = "tools"
    /\ \E i \in DOMAIN r.calls :
          /\ r.calls[i].name = "route_to_agent"
          /\ r.calls[i].valid
          /\ RegistryGetAgent(r.calls[i].agent_name) # "absent"

WithMarker(r, m) == IF r.kind = "raise" THEN r ELSE [r EXCEPT !.content = m \o @]

\* how two runs of the same invocation differ: in the marker the gateway puts
\* before its texts, in whether a callback is supplied, or in both
Variations ==
    { [m1 |-> <<"[Task: Fibonacci]">>, m2 |-> <<"[Task: Fibonacci]">>,
       callback |-> <<TRUE, FALSE>>] }
    \cup { [m1 |-> <<>>, m2 |-> m, callback |-> <<TRUE, TRUE>>] : m \in Markers }
    \cup { [m1 |-> <<>>, m2 |-> <<"[Task: Fibonacci]">>, callback |-> <<FALSE, TRUE>>] }

\* the same invocation is run twice; the gateway answers the n-th call of
\* session 2 as it answers the n-th call of session 1, up to the marker.
\* The runs are separate runs of the program: every query they give the
\* Python agent is the same, so that what one run leaves in _current_query
\* is what the other would have put there itself; and a delegate is answered
\* in text, so that no run reaches the stack limit, where the interpreter and
\* not the marker chooses what happens
InitPair ==
    /\ stack \in {[s \in {1, 2} |-> <<NewFrame(i[1], i[2], i[3])>>] :
                     i \in {j \in Invocations : j[1] = "python" => j[2] = QTextOnly}}
    /\ events = [s \in {1, 2} |-> <<>>]
    /\ current_query = <<>>
    /\ cursor = 0
    /\ \E v \in Variations :
          /\ callback = v.callback
          /\ script \in { <<WithMarker(r[1], v.m1), WithMarker(r[1], v.m2),
                             WithMarker(r[2], v.m1), WithMarker(r[2], v.m2)>> :
                             r \in {p \in [{1, 2} -> PlainResponses] :
                                       Delegates(p[1]) \/ Delegates(p[2]) =>
                                           p[2].kind = "text" /\ p[2].content = TextPlain} }
    /\ llm_available = TRUE
    /\ files = NoFiles
    /\ retrieval_env \in {e \in RetrievalEnvs : e.kag_raises}

\* the session whose call the gateway answers next: they take turns
Turn(s) == cursor % 2 = s - 1

NextPair ==
    \/ \E s \in Sessions : Start(s)
    \/ \E s \in Sessions : Retrieve(s)
    \/ \E s \in Sessions : LoopExit(s)
    \/ \E s \in Sessions : Turn(s) /\ GatewayRaises(s)
    \/ \E s \in Sessions : Turn(s) /\ GatewayText(s)
    \/ \E s \in Sessions : Turn(s) /\ GatewayToolCalls(s)
    \/ \E s \in Sessions : ExecTool(s)
    \/ \E s \in Sessions : DelegateReturn(s)

SpecPair == InitPair /\ [][NextPair]_vars

(***************************************************************************)
(* File endpoints (backend/app/api/v1/endpoints/files.py)                  *)
(***************************************************************************)
\* one file id; the blob field is the status in the metadata of the blob
\* <id>/<filename>, or "absent"; task and delete are the positions of the
\* background indexing task and of delete_file between their awaits
InitFiles ==
    /\ stack = <<>>
    /\ events = <<>>
    /\ callback = <<>>
    /\ current_query = <<>>
    /\ cursor = 0
    /\ script = <<>>
    /\ llm_available = FALSE
    /\ retrieval_env \in {e \in RetrievalEnvs : e.rag_raises}
    /\ files \in {[NoFiles EXCEPT !.index_outcome = o, !.delete_raises = d] :
                     o \in {"success", "failure", "raise"}, d \in BOOLEAN}

AgentVars == <<stack, events, callback, current_query, script, cursor,
               llm_available, retrieval_env>>

\* upload_file (200-250): the blob is stored with status pending, unless the
\* storage call fails (_upload_to_blob returns ""), and the indexing task is
\* queued; the response carries the id
UploadFile ==
    /\ files.task = "none"
    /\ \E stored \in BOOLEAN :
          files' = [files EXCEPT !.blob = IF stored THEN "pending" ELSE "absent",
                                 !.task = "queued"]
    /\ UNCHANGED AgentVars

\* _process_and_index_file up to the await of index_document (130-166): the
\* status becomes processing if the blob is there
TaskStart ==
    /\ files.task = "queued"
    /\ files' = [files EXCEPT
                    !.blob = IF @ = "absent" THEN @ ELSE "processing",
                    !.task = "indexing"]
    /\ UNCHANGED AgentVars

\* RAGIndexer.index_document takes effect: the index gets an entry for the
\* id, or the call reports a failure or raises
IndexDocument ==
    /\ files.task = "indexing"
    /\ files' = [files EXCEPT
                    !.indexed = IF files.index_outcome = "success" THEN TRUE ELSE @,
                    !.task = "indexed"]
    /\ UNCHANGED AgentVars

\* _process_and_index_file after index_document (168-194): the final status
\* is written if the blob is there; a missing blob raises and is passed over
TaskFinish ==
    /\ files.task = "indexed"
    /\ files' = [files EXCEPT
                    !.blob = IF @ = "absent" THEN @
                             ELSE IF files.index_outcome = "success" THEN "indexed"
                             ELSE "failed",
                    !.task = "finished"]
    /\ UNCHANGED AgentVars

\* a client that got the id calls delete_file, which awaits delete_document
\* (325-333)
DeleteCall ==
    /\ files.task # "none"
    /\ files.delete = "idle"
    /\ files' = [files EXCEPT !.delete = "unindexing"]
    /\ UNCHANGED AgentVars

\* RAGIndexer.delete_document takes effect: the entries of the id are
\* removed, or the call raises and the handler at 334-335 passes over it
DeleteDocument ==
    /\ files.delete = "unindexing"
    /\ files' = [files EXCEPT
                    !.indexed = IF files.delete_raises THEN @ ELSE FALSE,
                    !.delete = "unindexed"]
    /\ UNCHANGED AgentVars

\* delete_file after delete_document: the blobs under <id>/ are listed and
\* deleted, and the endpoint returns (337-350)
DeleteBlobs ==
    /\ files.delete = "unindexed"
    /\ files' = [files EXCEPT !.blob = "absent", !.delete = "returned"]
    /\ UNCHANGED AgentVars

NextFiles ==
    \/ UploadFile
    \/ TaskStart
    \/ IndexDocument
    \/ TaskFinish
    \/ DeleteCall
    \/ DeleteDocument
    \/ DeleteBlobs

SpecFiles == InitFiles /\ [][NextFiles]_vars

(***************************************************************************)
(* Properties                                                              *)
(***************************************************************************)
\* every invocation of execute that is running or over, nested ones included
AllFrames == UNION {{stack[s][i] : i \in 1..Len(stack[s])} : s \in Sessions}

AgentNames == {AgentName(a) : a \in Agents}

\* C1: whatever the gateway, the retrieval and the tools do, an invocation of
\* execute never lets an exception out, and it is over exactly when it has
\* returned its one well-formed AgentResponse.
C1_ExecuteAlwaysReturnsResponse ==
    \A f \in AllFrames :
        /\ f.pc # "raised"
        /\ (f.pc = "done") <=> (f.resp # NoResponse)
        /\ f.pc = "done" =>
              /\ f.resp.agent_name \in AgentNames
              /\ f.resp.content # NoneText
              /\ f.resp.success <=> (f.resp.error = NoError)

\* an invocation that saw graph retrieval raise, ran a turn of raising and
\* malformed tool calls, lost the gateway three times, and still returned
C1_Witness ==
    \E s \in Sessions :
        /\ Len(stack[s]) = 1
        /\ retrieval_env.kag_raises
        /\ Top(s).pc = "done"
        /\ ~Top(s).resp.success
        /\ Top(s).retry_count = max_retries
        /\ Top(s).tool_turns >= 1
        /\ \E i \in 1..Len(Top(s).messages) :
              /\ Top(s).messages[i].role = "tool"
              /\ Top(s).messages[i].content = ToolException("JSONDecodeError", <<>>).content

\* C2: once a turn with tool calls has been processed, every later gateway
\* call of the invocation passes no tool catalog and no tool choice other
\* than none, retries and anti-echo re-plans included.
C2_ToolsWithheldAfterToolTurn ==
    \A f \in AllFrames : \A i \in 1..Len(f.calls) :
        f.calls[i].after_tool_turns >= 1 =>
            /\ f.calls[i].tools = {}
            /\ f.calls[i].tool_choice \in {"none", "null"}

\* tools were on offer on the first call; a later call is a retry after a
\* gateway failure that followed a tool turn
C2_Witness ==
    \E f \in AllFrames :
        /\ Len(f.calls) >= 2
        /\ f.calls[1].tools # {}
        /\ \E i \in 2..Len(f.calls) :
              f.calls[i].after_tool_turns >= 1 /\ f.calls[i].retry_count >= 1

\* the gateway answers every call with tool calls, none of them a delegation
AlwaysToolsNoDelegation ==
    /\ llm_available
    /\ \A i \in 1..Len(script) :
          /\ script[i].kind = "tools"
          /\ \A j \in 1..Len(script[i].calls) :
                script[i].calls[j].name # "route_to_agent"

\* C3: with a gateway that always returns tool calls, none a delegation, and
\* never raises, an invocation makes exactly 10 gateway calls and then returns
\* success=false.
C3_StepBudgetExactlyTen ==
    AlwaysToolsNoDelegation =>
        \A f \in AllFrames :
            /\ Len(f.calls) <= max_steps
            /\ f.pc = "done" =>
                  /\ Len(f.calls) = max_steps
                  /\ ~f.resp.success
                  /\ f.resp = ExhaustedResponse(f.agent)

\* the gateway raises on every call
AlwaysRaises ==
    llm_available /\ \A i \in 1..Len(script) : script[i].kind = "raise"

\* the message of the k-th error the gateway raises under the script
ScriptedError(k) == GatewayErrorMsg(script[((k - 1) % Len(script)) + 1].msg, k)

\* C4: with a gateway that raises on every call, an invocation makes exactly
\* 3 gateway calls and then returns success=false with the message of the
\* third error in the error field.
C4_ThreeAttemptsThenLastError ==
    AlwaysRaises =>
        \A f \in AllFrames :
            /\ Len(f.calls) <= max_retries
            /\ f.pc = "done" =>
                  /\ Len(f.calls) = max_retries
                  /\ ~f.resp.success
                  /\ ScriptedError(max_retries) # "" =>
                        f.resp.error = ScriptedError(max_retries)
                  /\ f.resp.error # NoError

C4_Witness ==
    /\ AlwaysRaises
    /\ \E f \in AllFrames :
          /\ f.pc = "done"
          /\ Len(f.calls) = max_retries
          /\ f.resp.error = "Azure OpenAI error: 3"

\* C5: when the delegate's execute returns to the agent that routed to it,
\* that agent's execute is over and its response is the delegate's response,
\* every field unchanged, whether the delegate succeeded, failed or had
\* delegated further itself.
C5_DelegateResponseReturnedUnchanged ==
    [][\A s \in Sessions :
          Len(stack'[s]) < Len(stack[s]) =>
              /\ Len(stack'[s]) = Len(stack[s]) - 1
              /\ Top(s).pc = "done"
              /\ Last(stack'[s]).pc = "done"
              /\ Last(stack'[s]).resp = Top(s).resp]_vars

\* the orchestrator routed to the researcher, which routed on to the Python
\* agent, which failed: the orchestrator's response is the Python agent's
C5_Witness ==
    \E s \in Sessions :
        /\ Len(stack[s]) = 1
        /\ Top(s).agent = "orchestrator"
        /\ Top(s).delegated
        /\ Top(s).pc = "done"
        /\ Head(Top(s).pending).agent_name = "researcher"
        /\ Top(s).resp.agent_name = AgentName("python")
        /\ ~Top(s).resp.success

\* C6: an invocation that delegates stops at the route_to_agent call: that
\* call and the calls listed after it are still unprocessed, the transcript
\* ends with the tool messages of the calls listed before it, in order, and
\* once the delegate has returned the invocation is over without another
\* gateway call.
C6_DelegationStopsTheLoop ==
    \A f \in AllFrames :
        (f.delegated \/ f.pc = "delegating") =>
            /\ f.pending # <<>>
            /\ Head(f.pending).name = "route_to_agent"
            /\ RegistryGetAgent(Head(f.pending).agent_name) \in Agents
            /\ LET am == LastAssistant(f.messages)
                   tool_calls == f.messages[am].tool_calls
                   k == Len(tool_calls) - Len(f.pending)
               IN  /\ k >= 0
                   /\ f.pending = SubSeq(tool_calls, k + 1, Len(tool_calls))
                   /\ Len(f.messages) = am + k
                   /\ \A j \in 1..k :
                         /\ f.messages[am + j].role = "tool"
                         /\ f.messages[am + j].tool_call_id = tool_calls[j].id
            /\ Head(f.pending).id \div 10 = Len(f.calls)
            /\ f.delegated => f.pc = "done"

\* the delegate has returned; a call listed before the route_to_agent call was
\* executed and one listed after it was not
C6_Witness ==
    \E s \in Sessions :
        /\ Len(stack[s]) = 1
        /\ Top(s).delegated
        /\ Top(s).resp.agent_name # AgentName(Top(s).agent)
        /\ Len(Top(s).pending) >= 2
        /\ Last(Top(s).messages).role = "tool"

\* C7: no response with success=true has content containing route_to_agent
\* or execute_databricks_code: free text naming a tool is never returned as
\* the final answer.
C7_NoToolNameInFinalAnswer ==
    \A f \in AllFrames :
        (f.pc = "done" /\ f.resp.success) =>
            /\ ~Contains(f.resp.content, "route_to_agent")
            /\ ~Contains(f.resp.content, "execute_databricks_code")

\* the gateway echoed a tool name as free text, the guard spent a step, and
\* the next free text became the answer
C7_Witness ==
    \E f \in AllFrames :
        /\ f.pc = "done"
        /\ f.resp.success
        /\ f.tool_turns = 0
        /\ f.step_count >= 1
        /\ Len(f.calls) = f.step_count + 1

\* C8 as stated: ACTING is entered at most once per invocation, the response
\* after a tool turn being final.
C8_ActingAtMostOnce == \A f \in AllFrames : f.acting <= 1

\* C8: ACTING is entered at most 12 times per invocation, every entry but the
\* current one being a turn that was processed and counted as a step or a
\* turn that was aborted and counted as a failed attempt; a response that
\* carries tool calls after a tool turn is acted on again.
C8_ActingAtMostMaxSteps ==
    \A f \in AllFrames :
        /\ f.acting <= max_steps + max_retries - 1
        /\ f.tool_turns <= f.acting
        /\ f.acting <= f.tool_turns + f.retry_count + 1
        /\ f.tool_turns <= f.step_count
        /\ f.step_count <= max_steps
        /\ f.retry_count <= max_retries

\* ten tool turns in one invocation, nine of them after tools were withheld
C8_Witness ==
    \E f \in AllFrames :
        /\ f.pc = "done"
        /\ f.acting = max_steps
        /\ f.tool_turns = max_steps
        /\ f.calls[max_steps].tools = {}

\* every invocation is over: the callers' ones have returned, no nested one
\* is left
AllReturned ==
    \A s \in Sessions : Len(stack[s]) = 1 /\ stack[s][1].pc = "done"

\* C9: when every await returns or raises in finite time, every invocation
\* of execute eventually ends with a response, whatever the gateway answers,
\* agents that keep delegating to one another included.
C9_EveryInvocationTerminates == <>[]AllReturned

\* a chain of delegations that the gateway never stops feeding has ended: the
\* response that came back through it is the one of the invocation that hit
\* the interpreter's stack limit
C9_Witness ==
    \E s \in Sessions :
        /\ Len(stack[s]) = 1
        /\ Top(s).pc = "done"
        /\ Top(s).delegated
        /\ \A i \in 1..Len(script) :
              script[i].kind = "tools" /\ Head(script[i].calls).name = "route_to_agent"
        /\ Top(s).resp.error = RecursionErrorMsg

\* C10: the catalog and the tool choice of every gateway call of an
\* invocation are those its own query and its own state give, whatever a
\* concurrent invocation on the same agent asked; a TEXT ONLY: query to the
\* Python agent is never offered tools.
C10_ToolChoiceFromOwnQuery ==
    \A f \in AllFrames : \A i \in 1..Len(f.calls) :
        LET own == GatewayCall(f.agent, f.calls[i].after_tool_turns >= 1, f.caller_query)
        IN  /\ f.calls[i].tools = own.tools
            /\ f.calls[i].tool_choice = own.tool_choice
            /\ (f.agent = "python" /\ f.caller_query = QTextOnly) => f.calls[i].tools = {}

\* C11: every gateway call of a Python-agent invocation whose query carries
\* the TEXT ONLY: prefix, the first one included, is made without the tool
\* catalog and without a tool choice: the sandbox tool is never offered.
C11_TextOnlyNeverOffersTools ==
    \A f \in AllFrames :
        (f.agent = "python" /\ Contains(Upper(f.caller_query), "TEXT ONLY:")) =>
            \A i \in 1..Len(f.calls) :
                /\ "execute_databricks_code" \notin f.calls[i].tools
                /\ f.calls[i].tools = {}
                /\ f.calls[i].tool_choice \in {"none", "null"}

\* a caller's TEXT ONLY: invocation of the Python agent has made its first
\* call and a later one, and has ended
C11_Witness ==
    \E s \in Sessions :
        /\ Len(stack[s]) = 1
        /\ Top(s).agent = "python"
        /\ Top(s).query = QTextOnly
        /\ Top(s).pc = "done"
        /\ Len(Top(s).calls) >= 2
        /\ Top(s).calls[1].after_tool_turns = 0
        /\ Top(s).calls[1].retry_count = 0

\* C12: the Orchestrator exposes route_to_agent only, and an Orchestrator
\* invocation that has ended has either delegated or failed: it never ends
\* with a successful answer of its own.
C12_OrchestratorOnlyDelegates ==
    /\ GetTools("orchestrator") = {"route_to_agent"}
    /\ \A f \in AllFrames :
          (f.agent = "orchestrator" /\ f.pc = "done") =>
              (f.delegated \/ ~f.resp.success)

\* the exception message a tool call raises when the agent dispatches it, ""
\* when it raises nothing
RaisedBy(a, call) ==
    IF ~call.valid THEN "JSONDecodeError"
    ELSE IF call.oracle # "raise" THEN ""
    ELSE IF call.name \in {"search_documents", "analyze_trends"}
         THEN (IF a = "researcher" THEN "tool raised" ELSE "")
    ELSE IF call.name = "execute_databricks_code" THEN "sandbox raised"
    ELSE ""

\* C13: when the dispatch of a tool call raises (argument parsing or the tool
\* itself), the step appends one tool-role message for that call carrying
\* status error and the exception's message, leaves the retry counter alone,
\* does not end the invocation, keeps the remaining calls of the turn to be
\* processed, and goes back to PLANNING after the last of them.
C13_ToolExceptionBecomesObservation ==
    [][\A s \in Sessions :
          LET f == Top(s)
              g == Last(stack'[s])
              tool_call == Head(f.pending)
              msg == RaisedBy(f.agent, tool_call)
          IN  (/\ f.pc = "acting"
               /\ f.pending # <<>>
               /\ msg # ""
               /\ stack'[s] # stack[s]) =>
                  /\ Len(stack'[s]) = Len(stack[s])
                  /\ g.messages = Append(f.messages,
                        [role |-> "tool", content |-> <<"status:error", msg>>,
                         tool_calls |-> <<>>, tool_call_id |-> tool_call.id,
                         name |-> tool_call.name])
                  /\ g.retry_count = f.retry_count
                  /\ g.resp = NoResponse
                  /\ g.pending = Tail(f.pending)
                  /\ g.pc = IF Tail(f.pending) = <<>> THEN "planning" ELSE "acting"
                  /\ g.step_count = f.step_count
                                    + (IF Tail(f.pending) = <<>> THEN 1 ELSE 0)]_vars

\* a turn in which argument parsing failed for one call and a tool raised for
\* a later one has been processed to its end, and the gateway was called again
C13_Witness ==
    \E f \in AllFrames :
        /\ f.retry_count = 0
        /\ f.tool_turns >= 1
        /\ Len(f.calls) >= 2
        /\ \E i, j \in 1..Len(f.messages) :
              /\ i < j
              /\ f.messages[i].role = "tool"
              /\ f.messages[i].content = <<"status:error", "JSONDecodeError">>
              /\ f.messages[j].role = "tool"
              /\ f.messages[j].content = <<"status:error", "sandbox raised">>

\* C14: when a retriever or its construction raises, the invocation is not
\* failed by it: it goes on to the gateway, it can end with a successful
\* answer, and the retrieval error is in no response.
C14_RetrievalErrorSwallowed ==
    RetrievalError(retrieval_env) # "" =>
        \A f \in AllFrames :
            /\ f.pc \in {"start", "retrieving", "planning", "done"}
            /\ f.pc = "done" =>
                  /\ Len(f.calls) >= 1
                  /\ f.resp.error # RetrievalError(retrieval_env)
                  /\ ~Contains(f.resp.content, RetrievalError(retrieval_env))

\* the document index raised and the invocation ended with the gateway's
\* answer
C14_Witness ==
    /\ retrieval_env.rag_raises
    /\ \E f \in AllFrames :
          /\ f.pc = "done"
          /\ f.resp.success
          /\ f.resp.content = TextPlain
          /\ f.retrieved_context = EmptyContext

\* the content the outermost handler gives a failed response
ApologyFor(error) == <<"I apologize, I encountered an issue:", error>>

\* C15 as stated: every response with success=false has a non-empty error
\* and content of the form 'I apologize, I encountered an issue: <message>'.
C15_EveryFailureApologizes ==
    \A f \in AllFrames :
        (f.pc = "done" /\ ~f.resp.success) =>
            /\ f.resp.error # ""
            /\ f.resp.content = ApologyFor(f.resp.error)

\* C15: every response with success=false has a non-empty error; its content
\* is 'I apologize, I encountered an issue: <error>' when an exception ended
\* the invocation (retry exhaustion included), and the fixed 'I tried to
\* process your request ...' text with error 'Max steps or retries exceeded'
\* when the step budget ran out or there is no gateway.
C15_FailureResponseForms ==
    \A f \in AllFrames :
        (f.pc = "done" /\ ~f.resp.success) =>
            /\ f.resp.error # ""
            /\ \/ f.resp.content = ApologyFor(f.resp.error)
               \/ /\ f.resp.error = "Max steps or retries exceeded"
                  /\ f.resp.content = <<"I tried to process your request but reached the maximum allowed steps or encountered repeated errors.">>
            /\ (~f.delegated /\ f.retry_count >= max_retries) =>
                   f.resp.content = ApologyFor(f.resp.error)
            /\ (~f.delegated /\ f.retry_count < max_retries) =>
                   f.resp.content # ApologyFor(f.resp.error)

\* an invocation that spent its step budget has failed with the fixed text
C15_Witness ==
    \E f \in AllFrames :
        /\ f.pc = "done"
        /\ ~f.delegated
        /\ ~f.resp.success
        /\ f.step_count = max_steps
        /\ f.resp.content # ApologyFor(f.resp.error)

\* the body texts of the documents the search returned
BodyTexts == {retrieval_env.docs[i].page_content : i \in 1..Len(retrieval_env.docs)}

NoBodyIn(text) == \A i \in 1..Len(text) : text[i] \notin BodyTexts

TitleOfResult(r) == IF "title" \in DOMAIN r THEN r["title"] ELSE "Unknown"

FnameOfResult(r) ==
    LET named == IF "metadata_storage_name" \in DOMAIN r /\ r["metadata_storage_name"] # ""
                 THEN r["metadata_storage_name"]
                 ELSE IF "source" \in DOMAIN r /\ r["source"] # "" THEN r["source"]
                 ELSE IF "filename" \in DOMAIN r /\ r["filename"] # "" THEN r["filename"]
                 ELSE "Unknown File"
    IN  IF named = "uploads/orders.csv" THEN "orders.csv" ELSE named

KeyOfResult(r) == Pieces(TitleOfResult(r)) \o <<"_">> \o Pieces(FnameOfResult(r))

\* the positions of the document lines in a context text
DocPos(text) == {i \in 1..Len(text) : text[i] = "[Doc]"}

Planning(s) ==
    /\ Top(s).pc = "planning"
    /\ Top(s).step_count < max_steps
    /\ llm_available

\* session s took the step and its stack kept its height
Stepped(s) == stack'[s] # stack[s] /\ Len(stack'[s]) = Len(stack[s])

\* C18: a firing of the anti-echo guard adds exactly one to the step counter
\* and leaves the retry counter, the transcript and the tool-executed flag as
\* they were; the guard fires at most 10 times in an invocation, which then
\* ends failed with the step-budget message.
C18_AntiEchoCostsOneStep ==
    /\ [](\A f \in AllFrames :
            /\ f.step_count - f.tool_turns <= max_steps
            /\ f.step_count - f.tool_turns = max_steps =>
                  /\ f.pc \in {"planning", "done"}
                  /\ f.pc = "done" =>
                        /\ ~f.resp.success
                        /\ f.resp.error = "Max steps or retries exceeded")
    /\ [][\A s \in Sessions :
            LET f == Top(s)
                g == Last(stack'[s])
                r == NextResponse
            IN  (/\ Planning(s)
                 /\ r.kind = "text"
                 /\ \/ Contains(r.content, "route_to_agent")
                    \/ Contains(r.content, "execute_databricks_code")
                 /\ stack'[s] # stack[s]) =>
                    /\ Len(stack'[s]) = Len(stack[s])
                    /\ g.step_count = f.step_count + 1
                    /\ g.retry_count = f.retry_count
                    /\ g.messages = f.messages
                    /\ g.has_executed_tool = f.has_executed_tool
                    /\ g.pc = "planning"
                    /\ g.resp = NoResponse]_vars

\* the guard fired ten times in one invocation, which failed on its budget
C18_Witness ==
    \E f \in AllFrames :
        /\ f.pc = "done"
        /\ f.tool_turns = 0
        /\ f.step_count = max_steps
        /\ f.retry_count = 0
        /\ Len(f.calls) = max_steps
        /\ f.resp.error = "Max steps or retries exceeded"

\* C19: a gateway call that raises leaves the transcript, the step counter
\* and the tool-executed flag as they were and adds exactly one to the retry
\* counter; below 3 the loop stays in PLANNING, and the call that follows a
\* failed one is made with the same tool offering.
C19_GatewayErrorCostsOneRetry ==
    /\ [](\A f \in AllFrames : \A i \in 1..(Len(f.calls) - 1) :
            f.calls[i + 1].retry_count = f.calls[i].retry_count + 1 =>
                /\ f.calls[i + 1].tools = f.calls[i].tools
                /\ f.calls[i + 1].tool_choice = f.calls[i].tool_choice
                /\ f.calls[i + 1].step_count = f.calls[i].step_count
                /\ f.calls[i + 1].after_tool_turns = f.calls[i].after_tool_turns)
    /\ [][\A s \in Sessions :
            LET f == Top(s)
                g == Last(stack'[s])
                r == NextResponse
            IN  (Planning(s) /\ r.kind = "raise" /\ stack'[s] # stack[s]) =>
                    /\ Len(stack'[s]) = Len(stack[s])
                    /\ g.retry_count = f.retry_count + 1
                    /\ g.step_count = f.step_count
                    /\ g.messages = f.messages
                    /\ g.has_executed_tool = f.has_executed_tool
                    /\ g.retry_count < max_retries =>
                          (g.pc = "planning" /\ g.resp = NoResponse)
                    /\ g.retry_count >= max_retries => g.pc = "done"]_vars

\* a call that offered tools raised and was made again with the same
\* offering; the invocation is planning with two failed attempts behind it
C19_Witness ==
    \E f \in AllFrames :
        /\ f.pc = "planning"
        /\ f.retry_count = 2
        /\ \E i \in 1..(Len(f.calls) - 1) :
              /\ f.calls[i + 1].retry_count = f.calls[i].retry_count + 1
              /\ f.calls[i].tools # {}
              /\ f.calls[i + 1].tools # {}

\* C20: a turn of k tool calls without a delegation adds exactly one to the
\* step counter and sets the tool-executed flag, with the observation of the
\* last call and not before: until then counter and flag stay as they were,
\* and by then the transcript holds the k tool messages of the turn.
C20_TurnCountsOnceAfterAllObservations ==
    [][\A s \in Sessions :
          LET f == Top(s)
              g == Last(stack'[s])
              last == Len(f.pending) = 1
              am == LastAssistant(g.messages)
              tool_calls == g.messages[am].tool_calls
          IN  /\ (Planning(s) /\ NextResponse.kind = "tools" /\ Stepped(s)) =>
                    /\ g.pc = "acting"
                    /\ g.step_count = f.step_count
                    /\ g.has_executed_tool = f.has_executed_tool
              /\ (/\ f.pc = "acting"
                  /\ Stepped(s)
                  /\ g.pc \in {"acting", "planning"}) =>
                    /\ g.step_count = f.step_count + (IF last THEN 1 ELSE 0)
                    /\ g.has_executed_tool = (f.has_executed_tool \/ last)
                    /\ g.messages = Append(f.messages, Last(g.messages))
                    /\ Last(g.messages).role = "tool"
                    /\ last <=> g.pc = "planning"
                    /\ last =>
                          /\ Len(g.messages) = am + Len(tool_calls)
                          /\ \A j \in 1..Len(tool_calls) :
                                g.messages[am + j].tool_call_id = tool_calls[j].id]_vars

\* the tool calls of the assistant message at position i of a transcript are
\* answered: the messages right after it are their tool messages, one a call
\* and in the order of the calls, and no other message carries one of their ids
AnsweredAt(messages, i) ==
    LET tool_calls == messages[i].tool_calls
    IN  /\ i + Len(tool_calls) <= Len(messages)
        /\ \A j \in 1..Len(tool_calls) :
              /\ messages[i + j].role = "tool"
              /\ messages[i + j].tool_call_id = tool_calls[j].id
              /\ messages[i + j].name = tool_calls[j].name
              /\ Cardinality({m \in 1..Len(messages) :
                                 /\ messages[m].role = "tool"
                                 /\ messages[m].tool_call_id = tool_calls[j].id}) = 1

\* C21: at every gateway call, each tool call of each assistant message of
\* the transcript is answered by exactly one tool message with that call's id
\* and function name, and the tool messages follow their assistant message in
\* the order of the calls.
C21_ToolCallsAnsweredAtEveryCall ==
    \A f \in AllFrames :
        f.pc = "planning" =>
            \A i \in 1..Len(f.messages) :
                f.messages[i].role = "assistant" => AnsweredAt(f.messages, i)

\* C22: every assistant message of a transcript that has tool calls has
\* content null, whatever the gateway returned alongside the tool calls.
C22_ToolCallMessageContentNull ==
    \A f \in AllFrames : \A i \in 1..Len(f.messages) :
        (f.messages[i].role = "assistant" /\ f.messages[i].tool_calls # <<>>) =>
            f.messages[i].content = NoneText

IsPrefix(a, b) == Len(a) <= Len(b) /\ SubSeq(b, 1, Len(a)) = a

\* C23: the transcript of an invocation is append-only: it starts as the
\* system message and the user message with the query, and every step leaves
\* it as it is or appends messages at its end; no message in it is removed,
\* reordered or modified.
C23_TranscriptAppendOnly ==
    /\ [](\A f \in AllFrames :
            /\ f.pc \in {"start", "retrieving"} <=> f.messages = <<>>
            /\ f.messages # <<>> =>
                  /\ Len(f.messages) >= 2
                  /\ f.messages[1].role = "system"
                  /\ f.messages[2] = Message("user", f.query, <<>>, 0, "")
                  /\ \A i \in 3..Len(f.messages) :
                        f.messages[i].role \in {"assistant", "tool"})
    /\ [][\A s \in Sessions :
            \A i \in 1..Len(stack[s]) :
                i <= Len(stack'[s]) =>
                    /\ IsPrefix(stack[s][i].messages, stack'[s][i].messages)
                    /\ stack[s][i].messages = <<>> =>
                          Len(stack'[s][i].messages) \in {0, 2}]_vars

\* a transcript that grew by an assistant message and an observation before
\* its invocation delegated, and the delegate's own, which grew as well
C23_Witness ==
    \E s \in Sessions :
        /\ Len(stack[s]) >= 2
        /\ Len(stack[s][1].messages) >= 4
        /\ Len(stack[s][2].messages) >= 4
        /\ stack[s][2].messages[2] # stack[s][1].messages[2]

\* C24: a route_to_agent call whose target is not in the registry appends a
\* tool message with status error that cites the missing name, does not end
\* the invocation as delegated, leaves the remaining tool calls of the turn
\* to be processed, and the loop is in PLANNING again after the last of them.
C24_MissingTargetBecomesObservation ==
    [][\A s \in Sessions :
          LET f == Top(s)
              g == Last(stack'[s])
              call == Head(f.pending)
          IN  (/\ f.pc = "acting"
               /\ f.pending # <<>>
               /\ call.name = "route_to_agent"
               /\ call.valid
               /\ call.agent_name \notin Agents
               /\ stack'[s] # stack[s]) =>
                  /\ Len(stack'[s]) = Len(stack[s])
                  /\ g.messages = Append(f.messages, Last(g.messages))
                  /\ Last(g.messages).role = "tool"
                  /\ Last(g.messages).tool_call_id = call.id
                  /\ Last(g.messages).name = "route_to_agent"
                  /\ Head(Last(g.messages).content) = "status:error"
                  /\ Contains(Last(g.messages).content, call.agent_name)
                  /\ g.pending = Tail(f.pending)
                  /\ g.pc = IF g.pending = <<>> THEN "planning" ELSE "acting"
                  /\ ~g.delegated
                  /\ g.resp = NoResponse
                  /\ g.retry_count = f.retry_count]_vars

\* a turn that began with a route_to_agent call to an unknown agent has been
\* processed to its last call, and the invocation plans again
C24_Witness ==
    \E f \in AllFrames :
        /\ f.pc = "planning"
        /\ f.tool_turns >= 1
        /\ ~f.delegated
        /\ LET am == LastAssistant(f.messages)
           IN  /\ f.messages[am].tool_calls[1].name = "route_to_agent"
               /\ f.messages[am].tool_calls[1].agent_name = "writer"
               /\ f.messages[am + 1].content = <<"status:error", "Agent", "writer", "not found">>
               /\ Len(f.messages) = am + Len(f.messages[am].tool_calls)
               /\ Len(f.messages[am].tool_calls) >= 2

\* C25: for every tool name that is neither a callable attribute of the
\* calling agent other than execute, nor execute_databricks_code, nor
\* route_to_agent, the observation appended is the error 'Tool <name> not
\* implemented'; so for the name execute and for the names of non-callable
\* attributes of the agent.
C25_UnknownToolNotImplemented ==
    [][\A s \in Sessions :
          LET f == Top(s)
              g == Last(stack'[s])
              call == Head(f.pending)
          IN  (/\ f.pc = "acting"
               /\ f.pending # <<>>
               /\ call.valid
               /\ call.name \notin (CallableAttrs(f.agent) \ {"execute"})
               /\ call.name \notin {"execute_databricks_code", "route_to_agent"}
               /\ stack'[s] # stack[s]) =>
                  /\ g.messages = Append(f.messages, Last(g.messages))
                  /\ Last(g.messages).tool_call_id = call.id
                  /\ Last(g.messages).content =
                        <<"status:error", "Tool", call.name, "not implemented">>]_vars

\* the invocation f built its own response, and it is a failure
OwnFailure(f) == f.pc = "done" /\ ~f.delegated /\ ~f.resp.success

\* C26: an invocation that exhausts its step budget returns the error 'Max
\* steps or retries exceeded'; one that exhausts its retries returns neither
\* that error nor the content that goes with it, so the response tells the
\* two kinds of failure apart.
C26_ExhaustionKindsDistinct ==
    \A f \in AllFrames :
        /\ ~(f.step_count >= max_steps /\ f.retry_count >= max_retries)
        /\ (OwnFailure(f) /\ f.step_count >= max_steps) =>
              f.resp.error = "Max steps or retries exceeded"
        /\ (OwnFailure(f) /\ f.retry_count >= max_retries) =>
              /\ f.resp.error # "Max steps or retries exceeded"
              /\ f.resp.content # ExhaustedResponse(f.agent).content
              /\ f.resp.error # NoError

\* the retries ran out after a tool turn had been counted as a step
C26_Witness ==
    \E f \in AllFrames :
        /\ OwnFailure(f)
        /\ f.retry_count = max_retries
        /\ f.step_count >= 1
        /\ f.resp.error = "Azure OpenAI error: 3"

\* the titles of the first three records of a retrieval, fewer if it has fewer
FirstThreeTitles(rag_results) ==
    [i \in 1..(IF Len(rag_results) < 3 THEN Len(rag_results) ELSE 3) |->
        rag_results[i].title]

\* C27: a DONE response has success true, no error, the name of the executing
\* agent, the text of the last gateway response as content, and as sources the
\* provenance labels collected during retrieval followed by the titles of at
\* most the first three retrieved documents.
C27_DoneResponseFields ==
    /\ [](\A f \in AllFrames :
            (f.pc = "done" /\ ~f.delegated /\ f.resp.success) =>
                /\ f.resp.error = NoError
                /\ f.resp.agent_name = AgentName(f.agent)
                /\ f.resp.sources =
                      f.retrieved_context.sources_used
                      \o FirstThreeTitles(f.retrieved_context.rag_results)
                /\ Len(f.resp.sources) <= 2 + 3)
    /\ [][\A s \in Sessions :
            LET f == Top(s)
                g == Last(stack'[s])
            IN  (Planning(s) /\ stack'[s] # stack[s] /\ g.pc = "done" /\ g.resp.success) =>
                    /\ NextResponse.kind = "text"
                    /\ g.resp.content = NextResponse.content
                    /\ g.retrieved_context = f.retrieved_context]_vars

\* an answer given after four documents and a graph entity were retrieved:
\* both labels and three titles are its sources
C27_Witness ==
    \E f \in AllFrames :
        /\ f.pc = "done" /\ ~f.delegated /\ f.resp.success
        /\ Len(f.retrieved_context.rag_results) = 4
        /\ f.resp.content = TextPlain
        /\ f.resp.sources = <<"Azure AI Search (Direct Metadata)",
                              "Cosmos DB Gremlin (Direct Graph)",
                              "sales", "sales", "orders">>

\* C28 as stated: an invocation past its retrieval has called the Context
\* Retriever exactly once, with the raw query its caller passed, and an
\* invocation that has not retrieved yet has made no gateway call.
C28_RetrievedOnceWithRawQuery ==
    \A s \in Sessions : \A i \in 1..Len(stack[s]) :
        LET f == stack[s][i]
        IN  /\ f.pc \in {"start", "retrieving"} =>
                  f.retrieved_with = <<>> /\ f.calls = <<>>
            /\ f.pc \notin {"start", "retrieving"} =>
                  f.retrieved_with = <<f.caller_query>>

\* C28, amended: an invocation past its retrieval has called the Context
\* Retriever exactly once, with the query its agent handed to the loop, which
\* for the Python agent under a context with a data summary is the caller's
\* query followed by that summary and otherwise is the caller's raw query;
\* an invocation that has not retrieved yet has made no gateway call.
C28_RetrievedOnceWithLoopQuery ==
    \A s \in Sessions : \A i \in 1..Len(stack[s]) :
        LET f == stack[s][i]
            given == IF f.agent = "python" /\ f.context = WithSummary
                     THEN f.caller_query \o <<"Data available:", "3 rows">>
                     ELSE f.caller_query
        IN  /\ f.pc \in {"start", "retrieving"} =>
                  f.retrieved_with = <<>> /\ f.calls = <<>>
            /\ f.pc \notin {"start", "retrieving"} =>
                  /\ f.retrieved_with = <<given>>
                  /\ f.messages # <<>> => f.messages[2].content = given

\* a Python-agent invocation under a context with a data summary has made
\* gateway calls after its one retrieval, and so has one without a summary
C28_Witness ==
    \E s \in Sessions :
        /\ Top(s).agent = "python"
        /\ Top(s).context = WithSummary
        /\ Top(s).retrieved_with # <<Top(s).caller_query>>
        /\ Len(Top(s).retrieved_with) = 1
        /\ Len(Top(s).calls) >= 2
        /\ Top(s).pc = "done"

RECURSIVE GraphNames(_)
\* the entity names of the [Graph] lines of a context text, in order
GraphNames(text) ==
    IF text = <<>> THEN <<>>
    ELSE IF Head(text) = "[Graph]"
    THEN <<text[3]>> \o GraphNames(SubSeq(text, 4, Len(text)))
    ELSE GraphNames(Tail(text))

RECURSIVE FirstOccurrences(_, _)
\* the names of a list of entities, each at its first occurrence only
FirstOccurrences(ents, seen) ==
    IF ents = <<>> THEN <<>>
    ELSE IF Head(ents).name \in seen THEN FirstOccurrences(Tail(ents), seen)
    ELSE <<Head(ents).name>>
         \o FirstOccurrences(Tail(ents), seen \cup {Head(ents).name})

\* C30 as stated: in the context text rendered from a list of graph entities
\* every entity name appears on at most one [Graph] line, and the lines
\* follow the order in which the names first occur in the list.
C30_EachEntityNameOnce ==
    \A s \in Sessions : \A i \in 1..Len(stack[s]) :
        LET f == stack[s][i]
            names == GraphNames(f.retrieved_context.context_text)
        IN  f.pc \notin {"start", "retrieving"} =>
                /\ \A j, k \in 1..Len(names) : names[j] = names[k] => j = k
                /\ IsPrefix(names, FirstOccurrences(f.retrieved_context.kag_results, {}))

\* C30, amended: the context text rendered from a list of graph entities has
\* one [Graph] line for each of the first ten entities of the list, in the
\* order of the list and with repeated names repeated; entities after the
\* tenth are stored in the context and not rendered.
C30_OneLinePerEntityOfFirstTen ==
    \A s \in Sessions : \A i \in 1..Len(stack[s]) :
        LET f == stack[s][i]
            names == GraphNames(f.retrieved_context.context_text)
            ents == f.retrieved_context.kag_results
            shown == IF Len(ents) < 10 THEN Len(ents) ELSE 10
        IN  f.pc \notin {"start", "retrieving"} =>
                /\ ~retrieval_env.rag_raises /\ ~retrieval_env.kag_raises =>
                       ents = retrieval_env.ents
                /\ Len(names) = shown
                /\ \A j \in 1..shown : names[j] = ents[j].name

\* the graph index answered with a list that repeats an entity name, the
\* context text was rendered from it and the invocation went on to its answer
C30_Witness ==
    \E s \in Sessions :
        LET ents == Top(s).retrieved_context.kag_results
        IN  /\ Top(s).pc = "done"
            /\ Top(s).calls # <<>>
            /\ Len(ents) = MaxEnts
            /\ ents[1].name = ents[2].name
            /\ ents[1].label # ents[2].label
            /\ Contains(Top(s).retrieved_context.context_text, "[Graph]")

EventTypes == {"thinking", "query_summary", "code_execution", "observation"}

\* the types of the events session s receives in the step
NewEventTypes(s) ==
    [i \in 1..(Len(events'[s]) - Len(events[s])) |-> events'[s][Len(events[s]) + i].type]

\* the step dispatches a sandbox call of session s whose arguments parse,
\* with a callback supplied
SandboxCallStep(s) ==
    /\ callback[s]
    /\ Top(s).pc = "acting"
    /\ Top(s).pending # <<>>
    /\ Head(Top(s).pending).name = "execute_databricks_code"
    /\ Head(Top(s).pending).valid
    /\ stack'[s] # stack[s]

\* the step runs the sandbox once between a code_execution event and one
\* observation event, and appends the observation of the call
SandboxRanObserved(s) ==
    LET f == Top(s)
        g == stack'[s][Len(stack[s])]
    IN  /\ NewEventTypes(s) = <<"thinking", "code_execution", "observation">>
        /\ g.sandbox_runs = f.sandbox_runs + 1
        /\ Len(g.messages) = Len(f.messages) + 1
        /\ Last(g.messages).role = "tool"
        /\ Last(g.messages).tool_call_id = Head(f.pending).id
        /\ g.pending = Tail(f.pending) \/ (Tail(f.pending) = <<>> /\ g.pending = <<>>)

\* C31 as stated: with a callback supplied every event has one of the four
\* types, and every sandbox call whose arguments parse emits code_execution,
\* runs the sandbox and then emits exactly one observation, before the next
\* tool call is processed.
C31_SandboxCallEvents ==
    /\ [](\A s \in Sessions : \A i \in 1..Len(events[s]) :
              events[s][i].type \in EventTypes)
    /\ [][\A s \in Sessions : SandboxCallStep(s) => SandboxRanObserved(s)]_vars

\* C31, amended: with a callback supplied every event has one of the four
\* types; a sandbox call whose arguments parse to a JSON object emits
\* code_execution, runs the sandbox once and then emits exactly one
\* observation, whether the sandbox returns or raises, before the next tool
\* call is processed; a call whose arguments parse to another JSON value
\* emits no code_execution event, does not run the sandbox and emits one
\* observation.
C31_SandboxCallEventsForObjectArgs ==
    /\ [](\A s \in Sessions : \A i \in 1..Len(events[s]) :
              events[s][i].type \in EventTypes)
    /\ [][\A s \in Sessions : SandboxCallStep(s) =>
            IF Head(Top(s).pending).oracle # "not object"
            THEN SandboxRanObserved(s)
            ELSE /\ NewEventTypes(s) = <<"thinking", "observation">>
                 /\ stack'[s][Len(stack[s])].sandbox_runs = Top(s).sandbox_runs
                 /\ Len(stack'[s][Len(stack[s])].messages) = Len(Top(s).messages) + 1
         ]_vars

\* with a callback supplied, an invocation has run the sandbox for a call
\* that raised and for one that reported an error, each observed once, and
\* has ended
C31_Witness ==
    \E s \in Sessions :
        /\ callback[s]
        /\ Top(s).pc = "done"
        /\ Top(s).sandbox_runs >= 2
        /\ \E i \in 1..Len(events[s]) - 3 :
              /\ events[s][i].type = "code_execution"
              /\ events[s][i + 1] =
                     Event("observation", <<"Tool execution exception:", "sandbox raised">>)
              /\ events[s][i + 2].type = "thinking"
              /\ events[s][i + 3].type = "code_execution"

\* the invocation of session s is over
Over(s) == Len(stack[s]) = 1 /\ Top(s).pc = "done"

\* the names of the tools whose observations a transcript holds, in order
RECURSIVE ToolsRun(_)
ToolsRun(messages) ==
    IF messages = <<>> THEN <<>>
    ELSE (IF Head(messages).role = "tool" THEN <<Head(messages).name>> ELSE <<>>)
         \o ToolsRun(Tail(messages))

\* what an invocation did: its gateway calls with the counters they were made
\* at, its tool executions, its counters and how it ended
ControlFlow(f) ==
    [agent |-> f.agent, calls |-> f.calls, tools |-> ToolsRun(f.messages),
     sandbox_runs |-> f.sandbox_runs, step_count |-> f.step_count,
     retry_count |-> f.retry_count, has_executed_tool |-> f.has_executed_tool,
     pc |-> f.pc, success |-> f.resp.success, error |-> f.resp.error,
     agent_name |-> f.resp.agent_name]

\* the two runs agree: neither asks the gateway for a call the other never
\* makes, their nested invocations agree call by call, and once both are over
\* they have done the same
RunsAgree ==
    /\ Over(1) /\ Turn(1) => ~CanPlan(Top(2))
    /\ Over(2) => Turn(1) /\ ~CanPlan(Top(1))
    /\ \A i \in 1..Len(stack[1]) : i <= Len(stack[2]) =>
          LET c1 == stack[1][i].calls
              c2 == stack[2][i].calls
          IN  /\ stack[1][i].agent = stack[2][i].agent
              /\ \A k \in 1..Len(c1) : k <= Len(c2) => c1[k] = c2[k]
    /\ Over(1) /\ Over(2) => ControlFlow(Top(1)) = ControlFlow(Top(2))

\* C32 as stated: two runs that differ in whether a callback is supplied or
\* in whether the gateway's texts carry a [Task: ...] or [Summary: ...]
\* marker make the same gateway calls, run the same tools, count the same and
\* end in the same terminal state.
C32_MarkerNeverChangesControlFlow == RunsAgree

\* C32, amended: the same, for markers whose text contains neither
\* route_to_agent nor execute_databricks_code.
C32_MarkerWithoutToolNameNeverChangesControlFlow ==
    (\A i \in DOMAIN script : ~Contains(script[i].content, "[Summary:")) => RunsAgree

\* both runs are over after a tool turn and a final answer; only the second
\* was given a marker, and its callback got the query_summary event
C32_Witness ==
    /\ Over(1) /\ Over(2)
    /\ \E i \in 1..Len(events[2]) : events[2][i].type = "query_summary"
    /\ \A i \in 1..Len(events[1]) : events[1][i].type # "query_summary"
    /\ events[1] # <<>>
    /\ Top(1).has_executed_tool
    /\ Len(Top(2).calls) >= 2
    /\ Top(2).resp.success
    /\ Top(1).resp.content # Top(2).resp.content

\* some word of the query is one of the given words, whatever its case
HasWord(q, words) == \E i \in 1..Len(q) : q[i] \in words

\* the classification as the claim words it
ClaimedToolChoice(q) ==
    IF HasWord(q, {"text only:", "Text Only:", "TEXT ONLY:"}) THEN "none"
    ELSE IF HasWord(q, {"execute:", "Execute:", "EXECUTE:"}) THEN "auto"
    ELSE IF HasWord(q, {"Write", "write", "show"}) /\ ~HasWord(q, {"run", "prune"})
    THEN "none"
    ELSE "auto"

\* C33: the tool choice of the Python agent's first planning call is a
\* function of the query alone and is none or auto: none if the query carries
\* TEXT ONLY: (even with EXECUTE:), else auto if it carries EXECUTE:, else
\* none exactly when a write keyword occurs and no run keyword does, else
\* auto. With none the call is made without the catalog, with auto with it.
C33_ToolChoiceClassification ==
    \A f \in AllFrames :
        (f.agent = "python" /\ f.calls # <<>>) =>
            /\ ClaimedToolChoice(f.caller_query) \in {"none", "auto"}
            /\ PythonGetToolChoice(current_query) = ClaimedToolChoice(f.caller_query)
            /\ ClaimedToolChoice(f.caller_query) = "none" =>
                  f.calls[1].tools = {} /\ f.calls[1].tool_choice = "null"
            /\ ClaimedToolChoice(f.caller_query) = "auto" =>
                  /\ f.calls[1].tools = {"execute_databricks_code"}
                  /\ f.calls[1].tool_choice = "auto"

\* the first planning call was made for a query that carries both prefixes,
\* in mixed case, and a run keyword
C33_Witness ==
    \E s \in Sessions :
        /\ Top(s).agent = "python"
        /\ Top(s).caller_query = <<"Execute:", "Text Only:", "run">>
        /\ Top(s).calls # <<>>
        /\ Top(s).calls[1].tools = {}

\* C34: once delete_file has returned without an error of the index and the
\* background indexing task of the upload has finished, there is neither a
\* blob under the id nor an index entry for the id, whatever the interleaving.
C34_DeleteLeavesNothingBehind ==
    (files.delete = "returned" /\ files.task = "finished" /\ ~files.delete_raises) =>
        files.blob = "absent" /\ ~files.indexed

\* C35: the retry counter of an invocation never goes down, and the
\* invocation ends as failed through retry exhaustion exactly when its third
\* gateway failure occurs, whatever tool turns or anti-echo turns lie between
\* the failures.
C35_FailsAtThirdGatewayFailure ==
    /\ [](\A f \in AllFrames :
            /\ f.gateway_errors <= max_retries
            /\ (OwnFailure(f) /\ f.resp.error # "Max steps or retries exceeded")
                  <=> f.gateway_errors = max_retries)
    /\ [][\A s \in Sessions : \A i \in 1..Len(stack[s]) :
             i <= Len(stack'[s]) /\ stack'[s][i].pc # "start" =>
                 stack'[s][i].retry_count >= stack[s][i].retry_count]_vars

\* C36: in every reachable state of an invocation the step counter is at
\* most 10 and the retry counter at most 3; every gateway call is made with
\* fewer than 10 steps and fewer than 3 retries counted, each call but the
\* one under way has been counted once, and so one invocation, its delegates
\* apart, makes at most 12 gateway calls.
C36_CountersAndCallsBounded ==
    \A f \in AllFrames :
        /\ f.step_count <= max_steps
        /\ f.retry_count <= max_retries
        /\ Len(f.calls) <= max_steps + max_retries - 1
        /\ Len(f.calls) <= f.step_count + f.retry_count + 1
        /\ \A i \in DOMAIN f.calls :
              f.calls[i].step_count < max_steps /\ f.calls[i].retry_count < max_retries

\* an invocation has made its twelfth gateway call, over two failures and
\* nine counted steps, and ended on it
C36_Witness ==
    \E f \in AllFrames :
        /\ Len(f.calls) = 12
        /\ f.calls[12].step_count = 9 /\ f.calls[12].retry_count = 2
        /\ f.pc = "done"

\* the i-th gateway call of f was answered by a text the anti-echo guard
\* refused: a step was counted although no tool turn was
EchoTurn(f, i) ==
    /\ i + 1 \in DOMAIN f.calls
    /\ f.calls[i + 1].step_count = f.calls[i].step_count + 1
    /\ f.calls[i + 1].after_tool_turns = f.calls[i].after_tool_turns
    /\ f.calls[i + 1].retry_count = f.calls[i].retry_count

\* C37: when the anti-echo guard fires, the transcript and the
\* tool-executed flag stay as they were, so the planning call that follows
\* sends the transcript of the call that produced the echo with the same
\* catalog and tool choice: the agent's declared policy for as long as no
\* tool has executed.
C37_EchoLeavesTranscriptAndOffering ==
    /\ [](\A f \in AllFrames : \A i \in DOMAIN f.calls :
            EchoTurn(f, i) =>
                /\ f.calls[i + 1].messages = f.calls[i].messages
                /\ f.calls[i + 1].has_executed_tool = f.calls[i].has_executed_tool
                /\ f.calls[i + 1].tools = f.calls[i].tools
                /\ f.calls[i + 1].tool_choice = f.calls[i].tool_choice
                /\ ~f.calls[i].has_executed_tool =>
                      LET own == GatewayCall(f.agent, FALSE, f.caller_query)
                      IN  /\ f.calls[i + 1].tools = own.tools
                          /\ f.calls[i + 1].tool_choice = own.tool_choice)
    /\ [][\A s \in Sessions :
            LET f == Top(s)
                g == Last(stack'[s])
                r == NextResponse
            IN  (Planning(s) /\ r.kind = "text" /\ LooksLikeToolCall(r.content)
                 /\ stack'[s] # stack[s]) =>
                    /\ Len(stack'[s]) = Len(stack[s])
                    /\ g.messages = f.messages
                    /\ g.has_executed_tool = f.has_executed_tool
                    /\ g.pc = "planning" /\ g.resp = NoResponse]_vars

\* an orchestrator's call that offered its routing tool was answered by an echo
\* and made again, and a call after a tool turn was answered by an echo and
\* made again with no tools, on transcripts that did not grow
C37_Witness ==
    \E f \in AllFrames :
        /\ f.agent = "orchestrator"
        /\ \E i \in DOMAIN f.calls :
              /\ EchoTurn(f, i)
              /\ ~f.calls[i].has_executed_tool
              /\ f.calls[i + 1].tools = {"route_to_agent"}
              /\ Len(f.calls[i + 1].messages) = 2
        /\ \E i \in DOMAIN f.calls :
              /\ EchoTurn(f, i)
              /\ f.calls[i].has_executed_tool
              /\ f.calls[i + 1].tools = {}
              /\ Len(f.calls[i + 1].messages) > 2

\* the i-th gateway call of f was answered with tool calls, every one of them
\* was answered in the transcript of the next call, and every answer is an
\* error
ErrorTurn(f, i) ==
    /\ i + 1 \in DOMAIN f.calls
    /\ LET before == f.calls[i].messages
           after == f.calls[i + 1].messages
           n == Len(before)
       IN  /\ Len(after) > n + 1
           /\ after[n + 1].role = "assistant"
           /\ Len(after) = n + 1 + Len(after[n + 1].tool_calls)
           /\ \A k \in (n + 2)..Len(after) :
                 after[k].role = "tool" /\ Head(after[k].content) = "status:error"

\* C38: after a turn in which every tool call produced an error outcome
\* (tool not implemented, malformed arguments, delegation target missing, an
\* exception raised) the tool-executed flag is set, and every later planning
\* call of the invocation is made with no catalog and no tool choice.
C38_ErrorTurnWithholdsTools ==
    \A f \in AllFrames : \A i \in DOMAIN f.calls :
        ErrorTurn(f, i) =>
            /\ f.has_executed_tool
            /\ GatewayCall(f.agent, f.has_executed_tool, current_query).tools = {}
            /\ \A j \in DOMAIN f.calls : j > i =>
                  /\ f.calls[j].has_executed_tool
                  /\ f.calls[j].tools = {}
                  /\ f.calls[j].tool_choice = "null"

\* the orchestrator's first call, which offered route_to_agent, was answered
\* with a missing target, malformed arguments and raising tools; the call
\* that followed the errors offered nothing
C38_Witness ==
    \E f \in AllFrames :
        /\ f.agent = "orchestrator"
        /\ ErrorTurn(f, 1)
        /\ f.calls[1].tools = {"route_to_agent"}
        /\ Len(f.calls[2].messages) = Len(f.calls[1].messages) + 6
        /\ f.calls[2].tools = {}

\* C39: an agent without a gateway retrieves its context, calls no gateway
\* and runs no tool, and its invocation ends with success false and the
\* error "Max steps or retries exceeded" although its step counter and its
\* retry counter are both 0.
C39_NoGatewayGivesExhaustedResponse ==
    ~llm_available =>
        /\ cursor = 0
        /\ \A f \in AllFrames :
              /\ f.calls = <<>> /\ f.acting = 0 /\ f.tool_turns = 0
              /\ f.sandbox_runs = 0 /\ f.pending = <<>>
              /\ f.step_count = 0 /\ f.retry_count = 0
              /\ f.pc \in {"start", "retrieving", "planning", "done"}
              /\ f.pc \in {"planning", "done"} => Len(f.retrieved_with) = 1
              /\ f.pc = "done" =>
                    /\ ~f.resp.success
                    /\ f.resp.error = "Max steps or retries exceeded"
                    /\ f.resp = ExhaustedResponse(f.agent)

\* an invocation of an agent without a gateway has ended after its retrieval
C39_Witness ==
    /\ ~llm_available
    /\ \E f \in AllFrames :
          /\ f.pc = "done"
          /\ Len(f.retrieved_with) = 1
          /\ f.retrieved_context.rag_results # <<>>
          /\ f.resp.error = "Max steps or retries exceeded"

====
